---- MODULE Spec2Model ----
(***************************************************************************)
(* A model of rhai's Module (src/module/mod.rs): the direct tables of a    *)
(* module, its flattened caches and the indexed flag, the registration     *)
(* operations and their facades, the lookups, build_index and the merge    *)
(* operations.                                                             *)
(*                                                                         *)
(* A module is a record.  A HashMap is a function whose DOMAIN is the set  *)
(* of its keys; the empty map is <<>>.  Sub-modules are held by value: a   *)
(* Shared<Module> is never mutated through the shared handle, so sharing   *)
(* is not observable by the operations modelled here.                      *)
(***************************************************************************)
EXTENDS Integers, Sequences, FiniteSets, TLC

VARIABLES self, pre, op, steps

vars == <<self, pre, op, steps>>

\* Length of the runs explored: the number of operations applied to `self`.
MaxOps == 3

----------------------------------------------------------------------------
(* HashMap helpers *)

EmptyMap == <<>>

\* HashMap::insert
Put(m, k, v) == [i \in (DOMAIN m) \cup {k} |-> IF i = k THEN v ELSE m[i]]

\* HashMap::extend: every entry of o is inserted, overwriting on collision
Extend(m, o) ==
    [i \in (DOMAIN m) \cup (DOMAIN o) |-> IF i \in DOMAIN o THEN o[i] ELSE m[i]]

\* entry(k).or_insert(v) for every entry of o: existing keys are kept
FillMap(m, o) ==
    [i \in (DOMAIN m) \cup (DOMAIN o) |-> IF i \in DOMAIN m THEN m[i] ELSE o[i]]

\* HashMap::retain
Restrict(m, keep) == [i \in {j \in DOMAIN m : keep[j]} |-> m[i]]

Range(m) == {m[i] : i \in DOMAIN m}

----------------------------------------------------------------------------
(* Signature hasher (crate::utils).  A hash is the sequence of strings fed *)
(* to the hasher: equal inputs give equal hashes, different inputs give    *)
(* different ones (an ideal, collision-free 64-bit hash).                  *)

ArityStr == <<"0", "1", "2", "3", "4">>

\* calc_script_fn_hash(qualifiers, name, num)
calc_script_fn_hash(qualifiers, name, num) ==
    <<"script">> \o qualifiers \o <<"|", name, ArityStr[num + 1]>>

\* calc_native_fn_hash(qualifiers, name, params)
calc_native_fn_hash(qualifiers, name, params) ==
    <<"native">> \o qualifiers \o <<"|", name>> \o params

\* combine_hashes(a, b): non-commutative mix of two hashes
combine_hashes(a, b) == a \o <<"+">> \o b

----------------------------------------------------------------------------
(* FnNamespace, FnAccess, CallableFunction, FuncInfo *)

FnNamespace == {"Global", "Internal"}
FnAccess == {"Public", "Private"}

is_global(namespace) == namespace = "Global"
is_public(access) == access = "Public"
is_private(access) == access = "Private"

\* A callable is its kind and the identity of the closure / definition.
Callable(kind, id) == [kind |-> kind, id |-> id]
is_script(func) == func.kind = "script"

\* Default::default() for Module, and Module::new()
New ==
    [ modules            |-> EmptyMap,
      variables          |-> EmptyMap,
      all_variables      |-> EmptyMap,
      functions          |-> EmptyMap,
      all_functions      |-> EmptyMap,
      type_iterators     |-> EmptyMap,
      all_type_iterators |-> EmptyMap,
      indexed            |-> FALSE ]

is_indexed(m) == m.indexed

----------------------------------------------------------------------------
(* Direct-table operations *)

contains_var(m, name) == name \in DOMAIN m.variables

get_var(m, name) == IF name \in DOMAIN m.variables THEN <<m.variables[name]>> ELSE <<>>

set_var_keeps_index(m, name, value) ==
    [m EXCEPT !.variables = Put(@, name, value)]

set_var(m, name, value) ==
    [m EXCEPT !.variables = Put(@, name, value), !.indexed = FALSE]

get_qualified_var_if_indexed(m, hash_var) ==
    IF m.indexed /\ hash_var \in DOMAIN m.all_variables
    THEN <<m.all_variables[hash_var]>>
    ELSE <<>>

\* Some(value) is <<value>>, the not-found error is <<>>
get_qualified_var(m, hash_var) ==
    IF hash_var \in DOMAIN m.all_variables THEN <<m.all_variables[hash_var]>> ELSE <<>>

\* The error of a get_qualified_var miss: no name, Position::NONE
Position_NONE == "NONE"

ErrorVariableNotFound(name, position) ==
    [error |-> "ErrorVariableNotFound", name |-> name, position |-> position]

\* The Result get_qualified_var returns
get_qualified_var_result(m, hash_var) ==
    LET found == get_qualified_var(m, hash_var)
    IN  IF found = <<>>
        THEN [ok |-> FALSE, value |-> 0, err |-> ErrorVariableNotFound("", Position_NONE)]
        ELSE [ok |-> TRUE, value |-> found[1], err |-> ErrorVariableNotFound("", Position_NONE)]

\* fn_def is [name, params, access, id]
set_script_fn_hash(fn_def) == calc_script_fn_hash(<<>>, fn_def.name, Len(fn_def.params))

set_script_fn_no_placeholder(m, fn_def) ==
    [m EXCEPT
       !.functions = Put(@, set_script_fn_hash(fn_def),
            [ name        |-> fn_def.name,
              namespace   |-> "Internal",
              access      |-> fn_def.access,
              params      |-> Len(fn_def.params),
              param_types |-> <<>>,
              param_names |-> fn_def.params,
              func        |-> Callable("script", fn_def.id) ]),
       !.indexed = FALSE]

set_script_fn(m, fn_def) ==
    [m EXCEPT
       !.functions = Put(@, set_script_fn_hash(fn_def),
            [ name        |-> fn_def.name,
              namespace   |-> "Internal",
              access      |-> fn_def.access,
              params      |-> Len(fn_def.params),
              param_types |-> <<>>,
              param_names |-> Append(fn_def.params, "Dynamic"),
              func        |-> Callable("script", fn_def.id) ]),
       !.indexed = FALSE]

sub_modules_mut_keeps_caches(m, edit) ==
    [m EXCEPT
       !.indexed = FALSE,
       !.modules = IF edit = "keep" THEN @
                   ELSE [n \in (DOMAIN @) \ {edit} |-> @[n]]]

\* The handle gives the caller the sub-module table: `edit` is what the caller
\* does with it ("keep": nothing, otherwise the name it removes).
sub_modules_mut(m, edit) ==
    [m EXCEPT
       !.all_functions = EmptyMap,
       !.all_variables = EmptyMap,
       !.all_type_iterators = EmptyMap,
       !.indexed = FALSE,
       !.modules = IF edit = "keep" THEN @
                   ELSE [n \in (DOMAIN @) \ {edit} |-> @[n]]]

contains_sub_module(m, name) == name \in DOMAIN m.modules

get_sub_module(m, name) == IF name \in DOMAIN m.modules THEN <<m.modules[name]>> ELSE <<>>

set_sub_module(m, name, sub_module) ==
    [m EXCEPT !.modules = Put(@, name, sub_module), !.indexed = FALSE]

contains_fn(m, hash_fn, public_only) ==
    IF public_only
    THEN IF hash_fn \in DOMAIN m.functions
         THEN is_public(m.functions[hash_fn].access)
         ELSE FALSE
    ELSE hash_fn \in DOMAIN m.functions

update_fn_metadata_resizes(m, hash_fn, arg_names) ==
    IF hash_fn \in DOMAIN m.functions
    THEN [m EXCEPT !.functions[hash_fn].param_names = arg_names,
                   !.functions[hash_fn].params = Len(arg_names)]
    ELSE m

update_fn_metadata_invalidates(m, hash_fn, arg_names) ==
    [m EXCEPT
       !.functions = IF hash_fn \in DOMAIN @
                     THEN [@ EXCEPT ![hash_fn].param_names = arg_names]
                     ELSE @,
       !.indexed = FALSE]

update_fn_metadata(m, hash_fn, arg_names) ==
    IF hash_fn \in DOMAIN m.functions
    THEN [m EXCEPT !.functions[hash_fn].param_names = arg_names]
    ELSE m

update_fn_namespace_if_found(m, hash_fn, namespace) ==
    IF hash_fn \in DOMAIN m.functions
    THEN [m EXCEPT !.functions[hash_fn].namespace = namespace, !.indexed = FALSE]
    ELSE m

update_fn_namespace(m, hash_fn, namespace) ==
    [m EXCEPT
       !.functions = IF hash_fn \in DOMAIN @
                     THEN [@ EXCEPT ![hash_fn].namespace = namespace]
                     ELSE @,
       !.indexed = FALSE]

\* The string-like argument types are recorded as ImmutableString.
NormalizeType(id) == IF id \in {"&str", "String"} THEN "ImmutableString" ELSE id

\* The key set_fn returns: computed from the argument types as passed in.
set_fn_hash(name, arg_types) == calc_native_fn_hash(<<>>, name, arg_types)

set_fn_keeps_existing(m, name, namespace, access, arg_names, arg_types, func) ==
    LET param_types == [i \in 1..Len(arg_types) |-> NormalizeType(arg_types[i])]
    IN  [m EXCEPT
           !.functions = FillMap(@, Put(EmptyMap, set_fn_hash(name, arg_types),
                [ name        |-> name,
                  namespace   |-> namespace,
                  access      |-> access,
                  params      |-> Len(param_types),
                  param_types |-> param_types,
                  param_names |-> arg_names,
                  func        |-> func ])),
           !.indexed = FALSE]

set_fn(m, name, namespace, access, arg_names, arg_types, func) ==
    LET param_types == [i \in 1..Len(arg_types) |-> NormalizeType(arg_types[i])]
    IN  [m EXCEPT
           !.functions = Put(@, set_fn_hash(name, arg_types),
                [ name        |-> name,
                  namespace   |-> namespace,
                  access      |-> access,
                  params      |-> Len(param_types),
                  param_types |-> param_types,
                  param_names |-> arg_names,
                  func        |-> func ]),
           !.indexed = FALSE]

get_fn_any_access(m, hash_fn, public_only) ==
    IF hash_fn \in DOMAIN m.functions
    THEN <<m.functions[hash_fn].func>>
    ELSE <<>>

get_fn(m, hash_fn, public_only) ==
    IF hash_fn \in DOMAIN m.functions
       /\ (~public_only \/ is_public(m.functions[hash_fn].access))
    THEN <<m.functions[hash_fn].func>>
    ELSE <<>>

contains_qualified_fn(m, hash_fn) == hash_fn \in DOMAIN m.all_functions

get_qualified_fn(m, hash_fn) ==
    IF hash_fn \in DOMAIN m.all_functions THEN <<m.all_functions[hash_fn]>> ELSE <<>>

set_iter(m, typ, func) ==
    [m EXCEPT !.type_iterators = Put(@, typ, func), !.indexed = FALSE]

contains_qualified_iter(m, id) == id \in DOMAIN m.all_type_iterators

contains_iter(m, id) == id \in DOMAIN m.type_iterators

get_iter(m, id) ==
    IF id \in DOMAIN m.type_iterators THEN <<m.type_iterators[id]>> ELSE <<>>

get_qualified_iter_or_direct(m, id) ==
    IF id \in DOMAIN m.all_type_iterators THEN <<m.all_type_iterators[id]>>
    ELSE IF id \in DOMAIN m.type_iterators THEN <<m.type_iterators[id]>>
    ELSE <<>>

get_qualified_iter(m, id) ==
    IF id \in DOMAIN m.all_type_iterators THEN <<m.all_type_iterators[id]>> ELSE <<>>

----------------------------------------------------------------------------
(* Merge engine *)

\* clear() of the three flattened caches followed by indexed = false
Invalidate(m) ==
    [m EXCEPT
       !.all_functions = EmptyMap,
       !.all_variables = EmptyMap,
       !.all_type_iterators = EmptyMap,
       !.indexed = FALSE]

combine_keeps_existing(m, other) ==
    Invalidate([m EXCEPT
       !.modules = FillMap(@, other.modules),
       !.variables = Extend(@, other.variables),
       !.functions = Extend(@, other.functions),
       !.type_iterators = Extend(@, other.type_iterators)])

combine(m, other) ==
    Invalidate([m EXCEPT
       !.modules = Extend(@, other.modules),
       !.variables = Extend(@, other.variables),
       !.functions = Extend(@, other.functions),
       !.type_iterators = Extend(@, other.type_iterators)])

\* other.modules is a HashMap: its sub-modules are flattened in any order, so
\* combine_flatten gives the set of the results of all iteration orders.
RECURSIVE combine_flatten(_, _), CombineFlattenSubModules(_, _, _)

CombineFlattenSubModules(m, other, todo) ==
    IF todo = {}
    THEN {m}
    ELSE UNION { UNION { CombineFlattenSubModules(m2, other, todo \ {n})
                         : m2 \in combine_flatten(m, other.modules[n]) }
                 : n \in todo }

combine_flatten_deeper_wins(m, other) ==
    { Invalidate(m2)
      : m2 \in CombineFlattenSubModules(
                  [m EXCEPT
                     !.variables = Extend(@, other.variables),
                     !.functions = Extend(@, other.functions),
                     !.type_iterators = Extend(@, other.type_iterators)],
                  other, DOMAIN other.modules) }

combine_flatten_as_combine(m, other) == {combine(m, other)}

combine_flatten(m, other) ==
    { Invalidate([m2 EXCEPT
         !.variables = Extend(@, other.variables),
         !.functions = Extend(@, other.functions),
         !.type_iterators = Extend(@, other.type_iterators)])
      : m2 \in CombineFlattenSubModules(m, other, DOMAIN other.modules) }

fill_with_overwrites_vars(m, other) ==
    Invalidate([m EXCEPT
       !.modules = FillMap(@, other.modules),
       !.variables = Extend(@, other.variables),
       !.functions = FillMap(@, other.functions),
       !.type_iterators = FillMap(@, other.type_iterators)])

fill_with(m, other) ==
    Invalidate([m EXCEPT
       !.modules = FillMap(@, other.modules),
       !.variables = FillMap(@, other.variables),
       !.functions = FillMap(@, other.functions),
       !.type_iterators = FillMap(@, other.type_iterators)])

\* The filter predicates handed to merge_filtered and retain_script_functions,
\* by name: (namespace, access, is_script, name, params) -> bool.
Filters == {"all", "public"}

\* More predicates of the same signature: script functions only, nothing.
AllFilters == Filters \cup {"script", "none"}

Filter(filter, namespace, access, script, name, params) ==
    CASE filter = "all"    -> TRUE
      [] filter = "public" -> is_public(access)
      [] filter = "script" -> script
      [] filter = "none"   -> FALSE

FilterInfo(filter, f) ==
    Filter(filter, f.namespace, f.access, is_script(f.func), f.name, f.params)

merge_filtered_clones_sub_modules(m, other, filter) ==
    Invalidate([m EXCEPT
       !.modules = Extend(@, other.modules),
       !.variables = Extend(@, other.variables),
       !.functions =
          Extend(@, Restrict(other.functions,
                      [h \in DOMAIN other.functions |->
                          FilterInfo(filter, other.functions[h])])),
       !.type_iterators = Extend(@, other.type_iterators)])

RECURSIVE merge_filtered(_, _, _)

merge_filtered(m, other, filter) ==
    Invalidate([m EXCEPT
       !.modules =
          [k \in (DOMAIN @) \cup (DOMAIN other.modules) |->
              IF k \in DOMAIN other.modules
              THEN merge_filtered(New, other.modules[k], filter)
              ELSE @[k]],
       !.variables = Extend(@, other.variables),
       !.functions =
          Extend(@, Restrict(other.functions,
                      [h \in DOMAIN other.functions |->
                          FilterInfo(filter, other.functions[h])])),
       !.type_iterators = Extend(@, other.type_iterators)])

merge(m, other) == merge_filtered(m, other, "all")

retain_script_functions_keeps_natives(m, filter) ==
    Invalidate([m EXCEPT
       !.functions = Restrict(@, [h \in DOMAIN @ |-> FilterInfo(filter, @[h])])])

retain_script_functions_keeps_index(m, filter) ==
    [m EXCEPT
       !.functions =
          Restrict(@, [h \in DOMAIN @ |->
                         IF is_script(@[h].func)
                         THEN FilterInfo(filter, @[h])
                         ELSE FALSE])]

retain_script_functions(m, filter) ==
    Invalidate([m EXCEPT
       !.functions =
          Restrict(@, [h \in DOMAIN @ |->
                         IF is_script(@[h].func)
                         THEN FilterInfo(filter, @[h])
                         ELSE FALSE])])

\* #[derive(Clone)]: field by field; a sub-module handle gives the same module
clone(m) == [field \in DOMAIN m |-> m[field]]

\* `&a + rhs`: a is borrowed; the module returned and a as it is left
add_ref(a, rhs) ==
    LET module == clone(a)
    IN  [output |-> merge(module, rhs), a |-> a]

\* `a + rhs`: a is moved in and returned
add(a, rhs) == merge(a, rhs)

add_assign_as_merge(a, rhs) == merge(a, rhs)

\* `a += rhs`
add_assign(a, rhs) == combine(a, rhs)

----------------------------------------------------------------------------
(* Index builder *)

\* The accumulators index_module inserts into.
NoIndex == [variables |-> EmptyMap, functions |-> EmptyMap, type_iterators |-> EmptyMap]

QualifiedFnHash_script_style(qualifiers, f) ==
    calc_script_fn_hash(qualifiers, f.name, f.params)

\* The key a public function is flattened under besides its bare hash.
QualifiedFnHash(qualifiers, f) ==
    LET hash_qualified_script == calc_script_fn_hash(qualifiers, f.name, f.params)
    IN  IF ~is_script(f.func)
        THEN combine_hashes(hash_qualified_script,
                            calc_native_fn_hash(<<>>, "", f.param_types))
        ELSE hash_qualified_script

IndexedFns_any_access(module) == DOMAIN module.functions

\* The functions of one module that are flattened, and the keys they go under.
IndexedFns(module) == {h \in DOMAIN module.functions : is_public(module.functions[h].access)}

BareKeys_any_namespace(module) == IndexedFns(module)

BareKeys(module) == {h \in IndexedFns(module) : is_global(module.functions[h].namespace)}

\* The callables index_module inserts at key k for this module.
FnCandidates(module, qualifiers, k) ==
    {module.functions[h].func : h \in {g \in BareKeys(module) : g = k}}
    \cup {module.functions[h].func :
            h \in {g \in IndexedFns(module) :
                     QualifiedFnHash(qualifiers, module.functions[g]) = k}}

FnKeys(module, qualifiers) ==
    BareKeys(module)
    \cup {QualifiedFnHash(qualifiers, module.functions[h]) : h \in IndexedFns(module)}

IndexFunctions_keeps_first(module, qualifiers, functions) ==
    LET keys  == FnKeys(module, qualifiers) \ DOMAIN functions
        clash == {k \in keys : Cardinality(FnCandidates(module, qualifiers, k)) > 1}
        funcs == UNION {FnCandidates(module, qualifiers, k) : k \in clash}
    IN  { [k \in (DOMAIN functions) \cup keys |->
             IF k \in clash THEN pick[k]
             ELSE IF k \in keys
                  THEN CHOOSE c \in FnCandidates(module, qualifiers, k) : TRUE
                  ELSE functions[k]]
          : pick \in {p \in [clash -> funcs] :
                        \A k \in clash : p[k] \in FnCandidates(module, qualifiers, k)} }

\* module.functions is a HashMap: when two of its entries go under the same
\* key the later insert wins, and either may be the later one.
IndexFunctions(module, qualifiers, functions) ==
    LET keys  == FnKeys(module, qualifiers)
        clash == {k \in keys : Cardinality(FnCandidates(module, qualifiers, k)) > 1}
        funcs == UNION {FnCandidates(module, qualifiers, k) : k \in clash}
    IN  { [k \in (DOMAIN functions) \cup keys |->
             IF k \in clash THEN pick[k]
             ELSE IF k \in keys
                  THEN CHOOSE c \in FnCandidates(module, qualifiers, k) : TRUE
                  ELSE functions[k]]
          : pick \in {p \in [clash -> funcs] :
                        \A k \in clash : p[k] \in FnCandidates(module, qualifiers, k)} }

IndexVariables_unqualified(module, qualifiers, variables) ==
    Extend(variables,
           [h \in {calc_script_fn_hash(<<"root">>, v, 0) : v \in DOMAIN module.variables} |->
               module.variables[CHOOSE v \in DOMAIN module.variables :
                                   calc_script_fn_hash(<<"root">>, v, 0) = h]])

IndexVariables(module, qualifiers, variables) ==
    Extend(variables,
           [h \in {calc_script_fn_hash(qualifiers, v, 0) : v \in DOMAIN module.variables} |->
               module.variables[CHOOSE v \in DOMAIN module.variables :
                                   calc_script_fn_hash(qualifiers, v, 0) = h]])

\* index_module: the sub-modules first, in any order, then the module itself.
RECURSIVE index_module(_, _, _), IndexSubModules(_, _, _, _)

IndexSubModules_once(module, todo, qualifiers, acc) ==
    IF todo = {}
    THEN {acc}
    ELSE UNION { UNION { IndexSubModules(module,
                            {o \in todo \ {n} : module.modules[o] # module.modules[n]},
                            qualifiers, a)
                         : a \in index_module(module.modules[n], Append(qualifiers, n), acc) }
                 : n \in todo }

IndexSubModules(module, todo, qualifiers, acc) ==
    IF todo = {}
    THEN {acc}
    ELSE UNION { UNION { IndexSubModules(module, todo \ {n}, qualifiers, a)
                         : a \in index_module(module.modules[n], Append(qualifiers, n), acc) }
                 : n \in todo }

index_module_deeper_iterators(module, qualifiers, acc) ==
    UNION { { [ variables      |-> IndexVariables(module, qualifiers, a.variables),
                type_iterators |-> FillMap(a.type_iterators, module.type_iterators),
                functions      |-> fs ]
              : fs \in IndexFunctions(module, qualifiers, a.functions) }
            : a \in IndexSubModules(module, DOMAIN module.modules, qualifiers, acc) }

index_module(module, qualifiers, acc) ==
    UNION { { [ variables      |-> IndexVariables(module, qualifiers, a.variables),
                type_iterators |-> Extend(a.type_iterators, module.type_iterators),
                functions      |-> fs ]
              : fs \in IndexFunctions(module, qualifiers, a.functions) }
            : a \in IndexSubModules(module, DOMAIN module.modules, qualifiers, acc) }

\* Every flattening build_index can produce for the tree rooted at m.
Flattenings(m) == index_module(m, <<"root">>, NoIndex)

WithIndex_marks_sub_modules(m, ix) ==
    [m EXCEPT
       !.all_variables = ix.variables,
       !.all_functions = ix.functions,
       !.all_type_iterators = ix.type_iterators,
       !.modules = [n \in DOMAIN m.modules |-> [m.modules[n] EXCEPT !.indexed = TRUE]],
       !.indexed = TRUE]

WithIndex(m, ix) ==
    [m EXCEPT
       !.all_variables = ix.variables,
       !.all_functions = ix.functions,
       !.all_type_iterators = ix.type_iterators,
       !.indexed = TRUE]

build_index_always(m) == {WithIndex(m, ix) : ix \in Flattenings(m)}

\* build_index: the set of modules it can leave
build_index(m) ==
    IF ~m.indexed
    THEN {WithIndex(m, ix) : ix \in Flattenings(m)}
    ELSE {m}

----------------------------------------------------------------------------
(* FuncInfo::gen_signature and Module::get_script_fn *)

RECURSIVE Join(_, _)

\* [String]::join
Join(strs, sep) ==
    IF Len(strs) = 0 THEN ""
    ELSE IF Len(strs) = 1 THEN strs[1]
    ELSE strs[1] \o sep \o Join(Tail(strs), sep)

RECURSIVE Underscores(_, _)

\* for x in x..params: "_", and ", " unless x is the last
Underscores(x, params) ==
    IF x >= params THEN ""
    ELSE "_" \o (IF x < params - 1 THEN ", " ELSE "") \o Underscores(x + 1, params)

gen_signature_always_arrow(f) ==
    IF f.param_names # <<>>
    THEN f.name \o "(" \o Join(SubSeq(f.param_names, 1, Len(f.param_names) - 1), ", ")
            \o ") -> " \o f.param_names[Len(f.param_names)]
    ELSE f.name \o "(" \o Underscores(0, f.params) \o ") -> ?"

gen_signature_trailing_comma(f) ==
    IF f.param_names # <<>>
    THEN LET return_type == f.param_names[Len(f.param_names)]
         IN  f.name \o "(" \o Join(SubSeq(f.param_names, 1, Len(f.param_names) - 1), ", ")
                \o (IF return_type # "()" THEN ") -> " \o return_type ELSE ")")
    ELSE f.name \o "(" \o Join([x \in 1..f.params |-> "_, "], "")
            \o (IF is_script(f.func) THEN ")" ELSE ") -> ?")

gen_signature(f) ==
    IF f.param_names # <<>>
    THEN LET params      == SubSeq(f.param_names, 1, Len(f.param_names) - 1)
             return_type == f.param_names[Len(f.param_names)]
         IN  f.name \o "(" \o Join(params, ", ")
                \o (IF return_type # "()" THEN ") -> " \o return_type ELSE ")")
    ELSE f.name \o "(" \o Underscores(0, f.params)
            \o (IF is_script(f.func) THEN ")" ELSE ") -> ?")

\* The entries get_script_fn's find accepts; functions is a HashMap, so the
\* first of them in iteration order is any of them.  The result is <<>> for
\* None; otherwise get_fn_def is applied to the callable of the entry found,
\* which gives the definition of a script function and no definition (not
\* None either) for any other callable.
ScriptFnMatches(m, name, num_params, public_only) ==
    {h \in DOMAIN m.functions :
        /\ (~public_only \/ m.functions[h].access = "Public")
        /\ m.functions[h].params = num_params
        /\ m.functions[h].name = name}

get_script_fn(m, name, num_params, public_only) ==
    IF ScriptFnMatches(m, name, num_params, public_only) = {}
    THEN {<<>>}
    ELSE {IF is_script(m.functions[h].func)
          THEN <<[def |-> m.functions[h].func.id, scripted |-> TRUE]>>
          ELSE <<[def |-> 0, scripted |-> FALSE]>>
          : h \in ScriptFnMatches(m, name, num_params, public_only)}

----------------------------------------------------------------------------
(* Module::eval_ast_as_new.  The engine runs the script (crate::engine): what *)
(* it leaves is the scope, a sequence of entries [value, aliases], and the    *)
(* import stack `mods`, a sequence of [alias, module] that starts with the    *)
(* engine's global sub-modules.  The source id of a module is not modelled.   *)

RECURSIVE InsertAliases(_, _, _)

\* module.variables.insert(alias, value.clone()) for each alias, in order
InsertAliases(variables, aliases, value) ==
    IF aliases = <<>> THEN variables
    ELSE InsertAliases(Put(variables, Head(aliases), value), Tail(aliases), value)

RECURSIVE HarvestScope(_, _)

\* scope.into_iter().for_each: an entry with several aliases goes under each
\* of them, one with a single alias under that one, one with none nowhere
HarvestScope(variables, scope) ==
    IF scope = <<>> THEN variables
    ELSE LET entry == Head(scope)
             next  == IF Len(entry.aliases) > 1
                      THEN InsertAliases(variables, entry.aliases, entry.value)
                      ELSE IF Len(entry.aliases) = 1
                           THEN Put(variables, entry.aliases[Len(entry.aliases)], entry.value)
                           ELSE variables
         IN  HarvestScope(next, Tail(scope))

RECURSIVE HarvestImports(_, _)

\* mods.into_iter().skip(orig_mods_len).for_each: set_sub_module(alias, m)
HarvestImports(module, added) ==
    IF added = <<>> THEN module
    ELSE HarvestImports(set_sub_module(module, Head(added).alias, Head(added).module),
                        Tail(added))

\* The definition get_fn_def gives for a script function of the AST
FnDefOf(f) ==
    [name |-> f.name, params |-> SubSeq(f.param_names, 1, f.params),
     access |-> f.access, id |-> f.func.id]

RECURSIVE HarvestFunctions(_, _, _)

\* ast.lib().functions.values().filter(..).for_each: set_script_fn(func)
HarvestFunctions(module, lib, todo) ==
    IF todo = {} THEN module
    ELSE LET h == CHOOSE g \in todo : TRUE
         IN  HarvestFunctions(set_script_fn(module, FnDefOf(lib.functions[h])),
                              lib, todo \ {h})

ExportedFns_with_private(lib) ==
    {h \in DOMAIN lib.functions : is_script(lib.functions[h].func)}

ExportedFns(lib) ==
    {h \in DOMAIN lib.functions :
        ~is_private(lib.functions[h].access) /\ is_script(lib.functions[h].func)}

\* The modules eval_ast_as_new can return when the script runs to its end:
\* `mods` is the import stack after the run, `orig_mods_len` its length before
eval_ast_as_new(scope, mods, orig_mods_len, lib) ==
    LET m1 == [New EXCEPT !.variables = HarvestScope(@, scope)]
        m2 == HarvestImports(m1, SubSeq(mods, orig_mods_len + 1, Len(mods)))
        m3 == HarvestFunctions(m2, lib, ExportedFns(lib))
    IN  build_index(m3)

----------------------------------------------------------------------------
(* Registration facades.  The callable a facade registers is the adapter it  *)
(* builds around the closure: `reads` lists, for the closure's parameters in *)
(* order, the position of the argument list the adapter takes it from and    *)
(* how (cast_arg: by value, write_lock: by mutable borrow).                  *)

ByValue(pos) == [pos |-> pos, by |-> "value"]
ByBorrow(pos) == [pos |-> pos, by |-> "borrow"]

Adapter(kind, id, reads) == [kind |-> kind, id |-> id, reads |-> reads]

set_fn_0(m, name, id) ==
    set_fn(m, name, "Internal", "Public", <<>>, <<>>,
           Adapter("pure", id, <<>>))

set_fn_1(m, name, A, id) ==
    set_fn(m, name, "Internal", "Public", <<>>, <<A>>,
           Adapter("pure", id, <<ByValue(0)>>))

set_fn_1_mut(m, name, namespace, A, id) ==
    set_fn(m, name, namespace, "Public", <<>>, <<A>>,
           Adapter("method", id, <<ByBorrow(0)>>))

set_fn_2(m, name, A, B, id) ==
    set_fn(m, name, "Internal", "Public", <<>>, <<A, B>>,
           Adapter("pure", id, <<ByValue(0), ByValue(1)>>))

set_fn_2_mut(m, name, namespace, A, B, id) ==
    set_fn(m, name, namespace, "Public", <<>>, <<A, B>>,
           Adapter("method", id, <<ByBorrow(0), ByValue(1)>>))

set_fn_3(m, name, A, B, C, id) ==
    set_fn(m, name, "Internal", "Public", <<>>, <<A, B, C>>,
           Adapter("pure", id, <<ByValue(0), ByValue(1), ByValue(2)>>))

\* b is taken from args[2] and c from args[3]
set_fn_3_mut(m, name, namespace, A, B, C, id) ==
    set_fn(m, name, namespace, "Public", <<>>, <<A, B, C>>,
           Adapter("method", id, <<ByBorrow(0), ByValue(2), ByValue(3)>>))

set_fn_4(m, name, A, B, C, D, id) ==
    set_fn(m, name, "Internal", "Public", <<>>, <<A, B, C, D>>,
           Adapter("pure", id, <<ByValue(0), ByValue(1), ByValue(2), ByValue(3)>>))

set_fn_4_mut(m, name, namespace, A, B, C, D, id) ==
    set_fn(m, name, namespace, "Public", <<>>, <<A, B, C, D>>,
           Adapter("method", id, <<ByBorrow(0), ByValue(1), ByValue(2), ByValue(3)>>))

\* The names a property getter and setter go under (crate::engine)
FN_GET == "get$"
FN_SET == "set$"

make_getter(id) == FN_GET \o id
make_setter(id) == FN_SET \o id

set_getter_fn_internal(m, name, A, id) ==
    set_fn_1_mut(m, make_getter(name), "Internal", A, id)

set_getter_fn(m, name, A, id) ==
    set_fn_1_mut(m, make_getter(name), "Global", A, id)

set_setter_fn(m, name, A, B, id) ==
    set_fn_2_mut(m, make_setter(name), "Global", A, B, id)

\* The reserved names of the index getter and setter (crate::engine)
FN_IDX_GET == "index-get"
FN_IDX_SET == "index-set"

\* The receiver types an indexer cannot be registered for: the panics
IndexerPanics(A) == A \in {"Array", "Map", "String", "&str", "ImmutableString"}

\* A registration that can panic gives the module it leaves and whether it
\* panicked.
Registered(m) == [panic |-> FALSE, module |-> m]
Panicked(m) == [panic |-> TRUE, module |-> m]

set_indexer_get_fn(m, A, B, id) ==
    IF IndexerPanics(A)
    THEN Panicked(m)
    ELSE Registered(set_fn_2_mut(m, FN_IDX_GET, "Global", A, B, id))

set_indexer_set_fn_strings_allowed(m, A, B, C, id) ==
    IF A \in {"Array", "Map"}
    THEN Panicked(m)
    ELSE Registered(set_fn(m, FN_IDX_SET, "Internal", "Public", <<>>, <<A, B, C>>,
                           Adapter("method", id, <<ByBorrow(0), ByValue(1), ByValue(2)>>)))

set_indexer_set_fn(m, A, B, C, id) ==
    IF IndexerPanics(A)
    THEN Panicked(m)
    ELSE Registered(set_fn(m, FN_IDX_SET, "Internal", "Public", <<>>, <<A, B, C>>,
                           Adapter("method", id, <<ByBorrow(0), ByValue(1), ByValue(2)>>)))

\* The getter is registered first, then the setter.
set_indexer_get_set_fn(m, A, B, T, getter, setter) ==
    LET got == set_indexer_get_fn(m, A, B, getter)
    IN  IF got.panic THEN got ELSE set_indexer_set_fn(got.module, A, B, T, setter)

\* The adapter called with an argument list: indexing the list past its end
\* panics, otherwise the closure is called with the entries read.
CallAdapter(func, args) ==
    IF \E i \in DOMAIN func.reads : func.reads[i].pos >= Len(args)
    THEN [panic |-> TRUE, params |-> <<>>]
    ELSE [panic  |-> FALSE,
          params |-> [i \in DOMAIN func.reads |->
                        [value |-> args[func.reads[i].pos + 1], by |-> func.reads[i].by]]]

----------------------------------------------------------------------------
(* NamespaceRef: a chain of qualifiers and the cached scope offset *)

\* Token::DoubleColon.syntax() (crate::token)
DoubleColon == "::"

NamespaceRef(index, path) == [index |-> index, path |-> path]

\* #[derive(Default)]
NamespaceRef_default == NamespaceRef(0, <<>>)

\* From<StaticVec<Ident>>
NamespaceRef_from(modules) == NamespaceRef(0, modules)

\* index 0 is None
set_index(ns, index) == [ns EXCEPT !.index = index]

\* DerefMut to the StaticVec, then push
push(ns, name) == [ns EXCEPT !.path = Append(@, name)]

RECURSIVE WriteQualifiers(_)

\* Display: the loop writes each name followed by the separator
WriteQualifiers(path) ==
    IF path = <<>> THEN ""
    ELSE path[1] \o DoubleColon \o WriteQualifiers(Tail(path))

Display(ns) == WriteQualifiers(ns.path)

----------------------------------------------------------------------------
(* The inputs of the operations: names, values, types and the modules handed *)
(* to set_sub_module and to the merge operations, each built from New by the *)
(* operations above.                                                         *)

VarNames == {"x"}
Values == {1, 2}
SubNames == {"S", "T"}
ArgTypeLists == {<<"Int">>}
IterFns == {"iter1"}

\* S{var x = 1} and S{var y = 2}
SubX == set_var(New, "x", 1)
SubY == set_var(New, "y", 2)

\* A library: public and private, Global and Internal, native and script
\* functions, a variable and a type iterator.
LibFns ==
    LET m1 == set_fn(New, "f", "Global", "Public", <<>>, <<"Int">>, Callable("method", 11))
        m2 == set_fn(m1, "g", "Internal", "Public", <<>>, <<"Int">>, Callable("pure", 12))
        m3 == set_fn(m2, "p", "Global", "Private", <<>>, <<"Int">>, Callable("pure", 13))
        m4 == set_fn(m3, "q", "Internal", "Private", <<>>, <<"Int">>, Callable("pure", 14))
        m5 == set_script_fn(m4, [name |-> "s", params |-> <<"a">>, access |-> "Public", id |-> 15])
        m6 == set_script_fn(m5, [name |-> "t", params |-> <<"a">>, access |-> "Private", id |-> 16])
        m7 == set_iter(m6, "Int", "iterLib")
    IN  set_var(m7, "x", 2)

\* Two overloads that differ only in the string type of their parameter, and
\* an iterator for the type LibFns has one for.
LibStr ==
    LET m1 == set_fn(New, "f", "Global", "Public", <<>>, <<"&str">>, Callable("pure", 21))
        m2 == set_fn(m1, "f", "Global", "Public", <<>>, <<"String">>, Callable("pure", 22))
    IN  set_iter(m2, "Int", "iterStr")

\* The same variable at two depths, and one more at the top
Nested == set_sub_module(set_var(set_var(New, "x", 2), "y", 2), "S", SubX)

\* O with sub-module S{var y = 2}
OtherSY == set_sub_module(set_var(New, "y", 1), "S", SubY)

\* A function, an iterator and a variable at the top, and LibFns, which has
\* entries under the same three keys, one level below.
Deep ==
    LET m1 == set_fn(New, "f", "Global", "Public", <<>>, <<"Int">>, Callable("pure", 31))
        m2 == set_iter(m1, "Int", "iterTop")
        m3 == set_var(m2, "x", 1)
    IN  set_sub_module(m3, "S", LibFns)

\* Deep one level further down, beside a sibling with its own x
Deeper == set_sub_module(set_sub_module(New, "T", Deep), "S", set_var(New, "x", 3))

DeepInputs == {Deep, Deeper, Nested}

\* LibFns after its own build_index (it has no two entries under one key)
LibFnsIndexed == CHOOSE m \in build_index(LibFns) : TRUE

SubModuleInputs == {LibFnsIndexed, LibStr, Nested}
OtherInputs == {OtherSY, LibFns, Nested}

\* The properties accessors are registered for, and the types that have them
PropNames == {"x", "len"}
PropTypes == {"Point", "Int"}

\* Libraries with property accessors: a getter; a getter and a setter, after
\* build_index; and the first one level further down, below a module that
\* is indexed itself
Getters == set_getter_fn(New, "x", "Point", 51)

Accessors ==
    CHOOSE m \in build_index(set_setter_fn(Getters, "x", "Point", "Int", 52)) : TRUE

NestedGetters == CHOOSE m \in build_index(set_sub_module(New, "S", Getters)) : TRUE

AccessorSubModules == {Getters, Accessors, NestedGetters}

\* What a script run leaves.  Scopes: no entry; an entry never exported; one
\* exported under one alias and under two; an exported entry beside one that
\* is not; two entries exported under one name (let x = 1; export x;
\* let x = 2; export x;).  Imports: none, one, two, and two under one alias.
ScopeEntry(value, aliases) == [value |-> value, aliases |-> aliases]

Scopes ==
    {<<>>,
     <<ScopeEntry(1, <<>>)>>,
     <<ScopeEntry(1, <<"x">>)>>,
     <<ScopeEntry(1, <<"x", "y">>)>>,
     <<ScopeEntry(1, <<"x">>), ScopeEntry(2, <<>>)>>,
     <<ScopeEntry(1, <<"x">>), ScopeEntry(2, <<"x">>)>>}

Import(alias, module) == [alias |-> alias, module |-> module]

ImportLists ==
    {<<>>,
     <<Import("S", SubX)>>,
     <<Import("S", SubX), Import("T", LibFns)>>,
     <<Import("S", SubX), Import("S", SubY)>>}

GlobalSubModules == {<<>>, <<Import("G", SubY)>>}

\* The function libraries of the scripts: none, and public and private
\* script functions beside native ones
AstLibs == {New, LibFns}

\* A library of overloads of one name: two native ones of one arity, a
\* script one of that arity, and a private native one
OverloadLibrary ==
    LET m1 == set_fn(New, "f", "Internal", "Public", <<>>, <<"Int">>, Callable("pure", 61))
        m2 == set_fn(m1, "f", "Global", "Public", <<>>, <<"String">>, Callable("pure", 62))
        m3 == set_fn(m2, "f", "Internal", "Private", <<>>, <<"Bool">>, Callable("pure", 63))
    IN  set_script_fn(m3, [name |-> "f", params |-> <<"a">>, access |-> "Public", id |-> 64])

\* The parameter type lists of the overloads of one name
OverloadTypeLists ==
    {<<"Int">>, <<"Int", "Int">>, <<"String">>, <<"&str">>, <<"ImmutableString">>}

\* The receiver types of the indexers registered: the guarded ones and Int
ReceiverTypes == {"Array", "Map", "String", "&str", "ImmutableString", "Int"}

\* A module with an index getter and an index setter for Int
Indexers ==
    set_indexer_get_set_fn(New, "Int", "Int", "Int", 41, 42).module

IndexerSubModules == {Indexers, set_sub_module(New, "T", Indexers)}

\* The facades that register a closure of N parameters under a name
FacadeNames ==
    {"set_fn_0", "set_fn_1", "set_fn_1_mut", "set_fn_2", "set_fn_2_mut",
     "set_fn_3", "set_fn_3_mut", "set_fn_4", "set_fn_4_mut"}

\* The argument list a registered function is called with, cut to its arity
CallArgs == <<"arg0", "arg1", "arg2", "arg3">>

\* The parameter lists of the script functions defined, and the display
\* names handed to update_fn_metadata
ScriptParamLists == {<<>>, <<"a">>, <<"a", "b">>}

DisplayNameLists ==
    {<<>>, <<"Int">>, <<"x: Int", "Int">>, <<"x: Int", "()">>,
     <<"x: Int", "y: Int", "Int">>}

\* A hash no function is registered under
UnregisteredHash == set_fn_hash("none", <<>>)

----------------------------------------------------------------------------
(* The state: `self` is the module operated on, `op` the last operation    *)
(* applied to it with its arguments, `pre` the module before that          *)
(* operation, `steps` the number of operations applied so far.             *)

Op(name, arg, other) == [name |-> name, arg |-> arg, other |-> other]

Init ==
    /\ self = New
    /\ pre = New
    /\ op = Op("new", <<>>, New)
    /\ steps = 0

\* `self` becomes `next` by operation `o`
Apply(o, next) ==
    /\ steps < MaxOps
    /\ self' = next
    /\ pre' = self
    /\ op' = o
    /\ steps' = steps + 1

\* Every registration hands over a new closure.
NewCallable(kind) == Callable(kind, steps + 1)

SetVar ==
    \E name \in VarNames, value \in Values :
        Apply(Op("set_var", <<name>>, New), set_var(self, name, value))

SetFn ==
    \E namespace \in FnNamespace, access \in FnAccess, arg_types \in ArgTypeLists :
        Apply(Op("set_fn", set_fn_hash("f", arg_types), New),
              set_fn(self, "f", namespace, access, <<>>, arg_types, NewCallable("pure")))

SetScriptFn ==
    \E access \in FnAccess :
        LET fn_def == [name |-> "f", params |-> <<"a">>, access |-> access, id |-> steps + 1]
        IN  Apply(Op("set_script_fn", set_script_fn_hash(fn_def), New),
                  set_script_fn(self, fn_def))

SetSubModule ==
    \E name \in SubNames, sub_module \in SubModuleInputs :
        Apply(Op("set_sub_module", <<name>>, sub_module),
              set_sub_module(self, name, sub_module))

SubModulesMut ==
    \E edit \in {"keep"} \cup DOMAIN self.modules :
        Apply(Op("sub_modules_mut", <<edit>>, New), sub_modules_mut(self, edit))

SetIter ==
    \E func \in IterFns :
        Apply(Op("set_iter", <<"Int">>, New), set_iter(self, "Int", func))

UpdateFnMetadata ==
    \E hash_fn \in (DOMAIN self.functions) \cup {UnregisteredHash} :
        Apply(Op("update_fn_metadata", hash_fn, New),
              update_fn_metadata(self, hash_fn, <<"x: Int", "Int">>))

UpdateFnNamespace ==
    \E hash_fn \in (DOMAIN self.functions) \cup {UnregisteredHash}, namespace \in FnNamespace :
        Apply(Op("update_fn_namespace", hash_fn, New),
              update_fn_namespace(self, hash_fn, namespace))

Combine ==
    \E other \in OtherInputs :
        Apply(Op("combine", <<>>, other), combine(self, other))

CombineFlatten ==
    \E other \in OtherInputs :
        \E next \in combine_flatten(self, other) :
            Apply(Op("combine_flatten", <<>>, other), next)

FillWith ==
    \E other \in OtherInputs :
        Apply(Op("fill_with", <<>>, other), fill_with(self, other))

MergeFiltered ==
    \E other \in OtherInputs, filter \in Filters :
        Apply(Op("merge_filtered", <<filter>>, other), merge_filtered(self, other, filter))

RetainScriptFunctions ==
    \E filter \in Filters :
        Apply(Op("retain_script_functions", <<filter>>, New),
              retain_script_functions(self, filter))

BuildIndex ==
    \E next \in build_index(self) :
        Apply(Op("build_index", <<>>, New), next)

Next ==
    \/ SetVar
    \/ SetFn
    \/ SetScriptFn
    \/ SetSubModule
    \/ SubModulesMut
    \/ SetIter
    \/ UpdateFnMetadata
    \/ UpdateFnNamespace
    \/ Combine
    \/ CombineFlatten
    \/ FillWith
    \/ MergeFiltered
    \/ RetainScriptFunctions
    \/ BuildIndex

Spec == Init /\ [][Next]_vars

\* Indexer registration, on a module and below it
SetIndexerGetFn ==
    \E A \in ReceiverTypes :
        LET r == set_indexer_get_fn(self, A, "Int", steps + 1)
        IN  Apply(Op("set_indexer_get_fn", [receiver |-> A, panic |-> r.panic], New),
                  r.module)

SetIndexerSetFn ==
    \E A \in ReceiverTypes :
        LET r == set_indexer_set_fn(self, A, "Int", "Int", steps + 1)
        IN  Apply(Op("set_indexer_set_fn", [receiver |-> A, panic |-> r.panic], New),
                  r.module)

SetIndexerGetSetFn ==
    \E A \in ReceiverTypes :
        LET r == set_indexer_get_set_fn(self, A, "Int", "Int", steps + 1, steps + 2)
        IN  Apply(Op("set_indexer_get_set_fn", [receiver |-> A, panic |-> r.panic], New),
                  r.module)

SetIndexerSubModule ==
    \E name \in SubNames, sub_module \in IndexerSubModules :
        Apply(Op("set_sub_module", <<name>>, sub_module),
              set_sub_module(self, name, sub_module))

NextIndexer ==
    \/ SetIndexerGetFn
    \/ SetIndexerSetFn
    \/ SetIndexerGetSetFn
    \/ SetIndexerSubModule
    \/ BuildIndex

SpecIndexer == Init /\ [][NextIndexer]_vars

\* The facades for closures of 0 to 4 parameters, and calls of the functions
\* they register with an argument list of exactly that many entries.
Facade(m, facade, namespace, id) ==
    CASE facade = "set_fn_0"     -> set_fn_0(m, "calc", id)
      [] facade = "set_fn_1"     -> set_fn_1(m, "calc", "Int", id)
      [] facade = "set_fn_1_mut" -> set_fn_1_mut(m, "calc", namespace, "Int", id)
      [] facade = "set_fn_2"     -> set_fn_2(m, "calc", "Int", "Int", id)
      [] facade = "set_fn_2_mut" -> set_fn_2_mut(m, "calc", namespace, "Int", "Int", id)
      [] facade = "set_fn_3"     -> set_fn_3(m, "calc", "Int", "Int", "Int", id)
      [] facade = "set_fn_3_mut" -> set_fn_3_mut(m, "calc", namespace, "Int", "Int", "Int", id)
      [] facade = "set_fn_4"     -> set_fn_4(m, "calc", "Int", "Int", "Int", "Int", id)
      [] facade = "set_fn_4_mut" -> set_fn_4_mut(m, "calc", namespace, "Int", "Int", "Int", "Int", id)

SetFnN ==
    \E facade \in FacadeNames, namespace \in FnNamespace :
        Apply(Op(facade, <<namespace>>, New), Facade(self, facade, namespace, steps + 1))

SetIndexerSetFnInt ==
    Apply(Op("set_indexer_set_fn", [receiver |-> "Int", panic |-> FALSE], New),
          set_indexer_set_fn(self, "Int", "Int", "Int", steps + 1).module)

CallFn ==
    \E hash_fn \in DOMAIN self.functions :
        LET f    == self.functions[hash_fn]
            args == SubSeq(CallArgs, 1, f.params)
        IN  Apply(Op("call", [hash     |-> hash_fn,
                              args     |-> args,
                              outcome  |-> CallAdapter(f.func, args)], f),
                  self)

NextCall ==
    \/ SetFnN
    \/ SetIndexerSetFnInt
    \/ CallFn

SpecCall == Init /\ [][NextCall]_vars

\* Overloads of one name registered by the low-level set_fn
SetFnOverload ==
    \E arg_types \in OverloadTypeLists, access \in FnAccess :
        Apply(Op("set_fn", [hash      |-> set_fn_hash("f", arg_types),
                            name      |-> "f",
                            arg_types |-> arg_types,
                            func      |-> NewCallable("pure")], New),
              set_fn(self, "f", "Internal", access, <<>>, arg_types, NewCallable("pure")))

NextOverload ==
    \/ SetFnOverload
    \/ SetScriptFn
    \/ BuildIndex

SpecOverload == Init /\ [][NextOverload]_vars

\* One module attached under two names and under two parents.  A
\* Shared<Module> is held by value here: the module a handle gives is the
\* same at every place the handle is attached.
SharedLib ==
    LET m1 == set_fn(New, "f", "Internal", "Public", <<>>, <<"Int">>, Callable("pure", 71))
        m2 == set_script_fn(m1, [name |-> "s", params |-> <<"a">>, access |-> "Public", id |-> 72])
    IN  set_var(m2, "x", 1)

SetSharedSubModule ==
    \E name \in SubNames, sub_module \in {SharedLib, set_sub_module(New, "S", SharedLib)} :
        Apply(Op("set_sub_module", <<name>>, sub_module),
              set_sub_module(self, name, sub_module))

NextShared ==
    \/ SetVar
    \/ SetFn
    \/ SetSharedSubModule
    \/ BuildIndex

SpecShared == Init /\ [][NextShared]_vars

\* build_index step by step: the calls of index_module.  `todo` is the stack
\* of calls still to be made, each a module with the qualifiers it is
\* reached under, `visited` the paths of the calls made so far.  A call
\* makes one call per sub-module, in the order the HashMap gives them.
\* build_index holds &mut self: nothing else runs between its steps.
Children_none(n) == {}

Children(n) ==
    {[path |-> Append(n.path, k), module |-> n.module.modules[k]] :
        k \in DOMAIN n.module.modules}

Orders(S) ==
    {seq \in [1..Cardinality(S) -> S] : \A i, j \in 1..Cardinality(S) : seq[i] = seq[j] => i = j}

Idle == op.name # "index_module"

BuildIndexStart ==
    /\ Idle
    /\ steps < MaxOps
    /\ self' = self
    /\ pre' = self
    /\ op' = Op("index_module",
                [todo    |-> IF self.indexed THEN <<>>
                             ELSE <<[path |-> <<"root">>, module |-> self]>>,
                 visited |-> <<>>],
                New)
    /\ steps' = steps

IndexModuleCall ==
    /\ op.name = "index_module"
    /\ op.arg.todo # <<>>
    /\ \E order \in Orders(Children(Head(op.arg.todo))) :
          op' = [op EXCEPT !.arg = [todo    |-> order \o Tail(op.arg.todo),
                                    visited |-> Append(op.arg.visited, Head(op.arg.todo).path)]]
    /\ UNCHANGED <<self, pre, steps>>

BuildIndexEnd ==
    /\ op.name = "index_module"
    /\ op.arg.todo = <<>>
    /\ \E next \in build_index(self) :
          Apply(Op("build_index", [todo |-> <<>>, visited |-> op.arg.visited], New), next)

\* The operations that attach modules: a module given, a copy of self (the
\* nearest a caller gets to making a module its own descendant), the table
\* handle, and the merges
TraversalSetSubModule == Idle /\ SetSubModule

TraversalSetSubModuleClone ==
    /\ Idle
    /\ \E name \in SubNames :
          Apply(Op("set_sub_module", <<name>>, self), set_sub_module(self, name, self))

TraversalSubModulesMut == Idle /\ SubModulesMut

TraversalCombine == Idle /\ Combine

TraversalMergeFiltered == Idle /\ MergeFiltered

NextTraversal ==
    \/ TraversalSetSubModule
    \/ TraversalSetSubModuleClone
    \/ TraversalSubModulesMut
    \/ TraversalCombine
    \/ TraversalMergeFiltered
    \/ BuildIndexStart
    \/ IndexModuleCall
    \/ BuildIndexEnd

\* build_index is a synchronous call: once started it runs to its end
SpecTraversal ==
    /\ Init
    /\ [][NextTraversal]_vars
    /\ WF_vars(IndexModuleCall)
    /\ WF_vars(BuildIndexEnd)

\* Overloads at the root and one level down
SetOverloadSubModule ==
    \E name \in SubNames, sub_module \in {OverloadLibrary, LibFns} :
        Apply(Op("set_sub_module", <<name>>, sub_module),
              set_sub_module(self, name, sub_module))

NextKeys ==
    \/ SetFnOverload
    \/ SetScriptFn
    \/ SetOverloadSubModule
    \/ BuildIndex

SpecKeys == Init /\ [][NextKeys]_vars

\* Qualified lookups.  A lookup takes &self: it is observed on the module as
\* it is, between the operations that change it.
ObserveOps ==
    {"get_qualified_var", "get_qualified_fn", "gen_signature", "get_script_fn", "display", "read"}

Observe(o) ==
    /\ op.name \notin ObserveOps
    /\ self' = self
    /\ pre' = self
    /\ op' = o
    /\ steps' = steps

\* The hashes looked up: the variables x and y at the root and in S, the keys
\* of the direct and of the flattened function table, and an unknown one
VarProbes ==
    {calc_script_fn_hash(path, v, 0) :
        path \in {<<"root">>, <<"root", "S">>}, v \in {"x", "y"}}

FnProbes == (DOMAIN self.functions) \cup (DOMAIN self.all_functions) \cup {UnregisteredHash}

GetQualifiedVar ==
    \E hash_var \in VarProbes :
        Observe(Op("get_qualified_var",
                   [hash |-> hash_var, result |-> get_qualified_var_result(self, hash_var)],
                   New))

GetQualifiedFn ==
    \E hash_fn \in FnProbes :
        Observe(Op("get_qualified_fn",
                   [hash |-> hash_fn, result |-> get_qualified_fn(self, hash_fn)],
                   New))

NextLookup ==
    \/ SetVar
    \/ SetFn
    \/ SetSubModule
    \/ BuildIndex
    \/ GetQualifiedVar
    \/ GetQualifiedFn

SpecLookup == Init /\ [][NextLookup]_vars

\* Property accessors registered on the module and on its sub-modules
SetGetterFn ==
    \E name \in PropNames, A \in PropTypes :
        Apply(Op("set_getter_fn",
                 [prop |-> name, types |-> <<A>>,
                  hash |-> set_fn_hash(make_getter(name), <<A>>)], New),
              set_getter_fn(self, name, A, steps + 1))

SetSetterFn ==
    \E name \in PropNames, A \in PropTypes :
        Apply(Op("set_setter_fn",
                 [prop |-> name, types |-> <<A, "Int">>,
                  hash |-> set_fn_hash(make_setter(name), <<A, "Int">>)], New),
              set_setter_fn(self, name, A, "Int", steps + 1))

SetAccessorSubModule ==
    \E name \in SubNames, sub_module \in AccessorSubModules :
        Apply(Op("set_sub_module", <<name>>, sub_module),
              set_sub_module(self, name, sub_module))

NextAccessor ==
    \/ SetGetterFn
    \/ SetSetterFn
    \/ SetAccessorSubModule
    \/ BuildIndex

SpecAccessor == Init /\ [][NextAccessor]_vars

\* Readers of one module.  Each reader calls read accessors, one call a
\* step, and the steps of the readers interleave in every order; `done`
\* counts the calls each reader has made since the last mutation.
Readers == {"r1", "r2"}
MaxReads == 1

\* r1 looks up in the direct tables, r2 in the flattened ones
ReadAccessors(r) ==
    IF r = "r1"
    THEN {"get_var", "contains_var", "get_sub_module", "contains_sub_module",
          "contains_fn", "get_fn"}
    ELSE {"get_qualified_var", "get_qualified_fn", "contains_qualified_fn",
          "get_qualified_iter", "contains_qualified_iter", "is_indexed"}

\* The key of f(Int): in a direct table, and qualified as a function of S
HashF == set_fn_hash("f", <<"Int">>)
QualifiedHashF ==
    combine_hashes(calc_script_fn_hash(<<"root", "S">>, "f", 1),
                   calc_native_fn_hash(<<>>, "", <<"Int">>))

\* The arguments the readers call an accessor with
ReadKeys(m, accessor) ==
    CASE accessor \in {"get_var", "contains_var"} -> {"x", "z"}
      [] accessor \in {"get_sub_module", "contains_sub_module"} -> {"S", "U"}
      [] accessor \in {"contains_fn", "get_fn"} ->
            {<<h, b>> : h \in {HashF, UnregisteredHash}, b \in BOOLEAN}
      [] accessor = "get_qualified_var" ->
            {calc_script_fn_hash(<<"root">>, "x", 0), calc_script_fn_hash(<<"root", "S">>, "x", 0)}
      [] accessor \in {"get_qualified_fn", "contains_qualified_fn"} ->
            {HashF, QualifiedHashF, UnregisteredHash}
      [] accessor \in {"get_qualified_iter", "contains_qualified_iter"} -> {"Int", "Str"}
      [] accessor = "is_indexed" -> {"-"}

\* What the accessor returns: `found` for a bool, a Some or an Ok, and the
\* value of a Some or an Ok in `value`
ReadResult(m, accessor, key) ==
    LET Answer(b) == [found |-> b, value |-> <<>>]
        Option(o) == [found |-> o # <<>>, value |-> o]
    IN  CASE accessor = "get_var" -> Option(get_var(m, key))
          [] accessor = "contains_var" -> Answer(contains_var(m, key))
          [] accessor = "get_sub_module" -> Option(get_sub_module(m, key))
          [] accessor = "contains_sub_module" -> Answer(contains_sub_module(m, key))
          [] accessor = "contains_fn" -> Answer(contains_fn(m, key[1], key[2]))
          [] accessor = "get_fn" -> Option(get_fn(m, key[1], key[2]))
          [] accessor = "get_qualified_var" -> Option(get_qualified_var(m, key))
          [] accessor = "get_qualified_fn" -> Option(get_qualified_fn(m, key))
          [] accessor = "contains_qualified_fn" -> Answer(contains_qualified_fn(m, key))
          [] accessor = "get_qualified_iter" -> Option(get_qualified_iter(m, key))
          [] accessor = "contains_qualified_iter" -> Answer(contains_qualified_iter(m, key))
          [] accessor = "is_indexed" -> Answer(is_indexed(m))

ReadsDone == IF op.name = "read" THEN op.arg.done ELSE [r \in Readers |-> 0]

\* The accessors take &self: the module is as before
Read ==
    \E r \in Readers :
      \E accessor \in ReadAccessors(r) :
        \E key \in ReadKeys(self, accessor) :
            /\ ReadsDone[r] < MaxReads
            /\ self' = self
            /\ pre' = self
            /\ op' = Op("read",
                        [reader |-> r, accessor |-> accessor, key |-> key,
                         result |-> ReadResult(self, accessor, key),
                         done   |-> [ReadsDone EXCEPT ![r] = @ + 1]],
                        New)
            /\ steps' = steps

SetReadSubModule ==
    \E sub_module \in {LibFnsIndexed, Nested} :
        Apply(Op("set_sub_module", <<"S">>, sub_module),
              set_sub_module(self, "S", sub_module))

NextReaders ==
    \/ SetVar
    \/ SetFn
    \/ SetIter
    \/ SetReadSubModule
    \/ BuildIndex
    \/ Read

SpecReaders == Init /\ [][NextReaders]_vars

\* A module made by running a script, and used afterwards.  eval_ast_as_new
\* is a constructor: it is the first operation.  A script that fails gives
\* Err and no module.
EvalAstAsNew ==
    \E scope \in Scopes, global_sub_modules \in GlobalSubModules,
       imports \in ImportLists, lib \in AstLibs, ok \in BOOLEAN :
        LET arg == [ok |-> ok, scope |-> scope, imports |-> imports, lib |-> lib]
        IN  /\ steps = 0
            /\ IF ok
               THEN \E next \in eval_ast_as_new(scope, global_sub_modules \o imports,
                                              Len(global_sub_modules), lib) :
                        Apply(Op("eval_ast_as_new", arg, New), next)
               ELSE Apply(Op("eval_ast_as_new", arg, New), self)

NextEval ==
    \/ EvalAstAsNew
    \/ SetVar
    \/ BuildIndex
    \/ GetQualifiedVar

SpecEval == Init /\ [][NextEval]_vars

\* A NamespaceRef built from a chain or grown by push, its offset set, and
\* rendered.  Here the object operated on is the NamespaceRef.
Qualifiers == {"a", "b", "c"}
Chains == {<<>>, <<"a">>, <<"a", "b">>, <<"a", "b", "c">>, <<"c", "a">>}
Offsets == {0, 1, 2}

InitNamespace ==
    /\ self = NamespaceRef_default
    /\ pre = NamespaceRef_default
    /\ op = Op("default", [path |-> <<>>, text |-> ""], New)
    /\ steps = 0

NamespaceFrom ==
    \E modules \in Chains :
        Apply(Op("from", [path |-> modules, text |-> ""], New), NamespaceRef_from(modules))

NamespacePush ==
    \E name \in Qualifiers :
        /\ Len(self.path) < MaxOps
        /\ Apply(Op("push", [path |-> <<name>>, text |-> ""], New), push(self, name))

NamespaceSetIndex ==
    \E index \in Offsets :
        Apply(Op("set_index", [path |-> <<>>, text |-> ""], New), set_index(self, index))

NamespaceDisplay ==
    Observe(Op("display", [path |-> self.path, text |-> Display(self)], New))

NextNamespace ==
    \/ NamespaceFrom
    \/ NamespacePush
    \/ NamespaceSetIndex
    \/ NamespaceDisplay

SpecNamespace == InitNamespace /\ [][NextNamespace]_vars

\* Native and script functions of one name, their display names, their
\* signatures and the lookup of a script function by name and arity
SetScriptFnArity ==
    \E params \in ScriptParamLists, access \in FnAccess :
        LET fn_def == [name |-> "calc", params |-> params, access |-> access, id |-> steps + 1]
        IN  Apply(Op("set_script_fn", [hash |-> set_script_fn_hash(fn_def), fn_def |-> fn_def], New),
                  set_script_fn(self, fn_def))

UpdateFnMetadataNames ==
    \E hash_fn \in DOMAIN self.functions, arg_names \in DisplayNameLists :
        Apply(Op("update_fn_metadata", hash_fn, New),
              update_fn_metadata(self, hash_fn, arg_names))

SetFnArity ==
    \E facade \in {"set_fn_0", "set_fn_1", "set_fn_2", "set_fn_3", "set_fn_4"} :
        Apply(Op(facade, <<"Internal">>, New), Facade(self, facade, "Internal", steps + 1))

GenSignature ==
    \E hash_fn \in DOMAIN self.functions :
        Observe(Op("gen_signature",
                   [info |-> self.functions[hash_fn],
                    sig  |-> gen_signature(self.functions[hash_fn])],
                   New))

GetScriptFn ==
    \E num_params \in 0..2, public_only \in BOOLEAN :
        \E result \in get_script_fn(self, "calc", num_params, public_only) :
            Observe(Op("get_script_fn",
                       [name |-> "calc", num_params |-> num_params,
                        public_only |-> public_only, result |-> result],
                       New))

NextSignature ==
    \/ SetFnArity
    \/ SetScriptFnArity
    \/ UpdateFnMetadataNames
    \/ GenSignature
    \/ GetScriptFn

SpecSignature == Init /\ [][NextSignature]_vars

\* The operators, on a module that may be indexed, with right-hand sides
\* that have sub-modules, one of them indexed.  `&a + rhs` gives a new module
\* and is observed on `self` as it is.
AddInputs == {OtherSY, LibFns, set_sub_module(SubX, "S", LibFnsIndexed)}

AddRef ==
    /\ op.name # "add_ref"
    /\ \E rhs \in AddInputs :
          LET r == add_ref(self, rhs)
          IN  /\ self' = r.a
              /\ pre' = self
              /\ op' = Op("add_ref", [output |-> r.output], rhs)
              /\ steps' = steps

Add ==
    \E rhs \in AddInputs :
        Apply(Op("add", [output |-> add(self, rhs)], rhs), add(self, rhs))

AddAssign ==
    \E rhs \in AddInputs :
        Apply(Op("add_assign", [output |-> add_assign(self, rhs)], rhs), add_assign(self, rhs))

NextOperators ==
    \/ SetVar
    \/ SetFn
    \/ SetSubModule
    \/ BuildIndex
    \/ AddRef
    \/ Add
    \/ AddAssign

SpecOperators == Init /\ [][NextOperators]_vars

\* One bare hash at three depths: f(Int) at the root, in Deep attached to it,
\* and in the library Deep holds
SetDeepSubModule ==
    \E name \in SubNames, sub_module \in {Deep, LibFns} :
        Apply(Op("set_sub_module", <<name>>, sub_module),
              set_sub_module(self, name, sub_module))

NextBare ==
    \/ SetFn
    \/ UpdateFnNamespace
    \/ SetDeepSubModule
    \/ BuildIndex

SpecBare == Init /\ [][NextBare]_vars

\* Every way a function entry enters or changes in a table: the low-level
\* set_fn, the set_fn_N builders, scripts, metadata and namespace updates,
\* the merges (which bring sub-modules with them) and the retain
NextArity ==
    \/ SetFn
    \/ SetFnArity
    \/ SetScriptFn
    \/ UpdateFnMetadata
    \/ UpdateFnNamespace
    \/ Combine
    \/ CombineFlatten
    \/ FillWith
    \/ MergeFiltered
    \/ RetainScriptFunctions
    \/ BuildIndex

SpecArity == Init /\ [][NextArity]_vars

\* The merge operations on trees that hold functions, iterators and variables
\* at several depths, under every filter predicate.
CombineFlattenDeep ==
    \E other \in DeepInputs :
        \E next \in combine_flatten(self, other) :
            Apply(Op("combine_flatten", <<>>, other), next)

MergeFilteredDeep ==
    \E other \in DeepInputs, filter \in AllFilters :
        Apply(Op("merge_filtered", <<filter>>, other), merge_filtered(self, other, filter))

RetainScriptFunctionsBy ==
    \E filter \in AllFilters :
        Apply(Op("retain_script_functions", <<filter>>, New),
              retain_script_functions(self, filter))

NextMerge ==
    \/ SetVar
    \/ SetFn
    \/ SetScriptFn
    \/ SetIter
    \/ CombineFlattenDeep
    \/ MergeFilteredDeep
    \/ RetainScriptFunctionsBy

SpecMerge == Init /\ [][NextMerge]_vars

----------------------------------------------------------------------------
(* Vocabulary of the properties *)

\* Every module of the tree rooted at m, with the qualifier path leading to it
RECURSIVE Tree(_, _)

Tree(m, path) ==
    {[path |-> path, module |-> m]}
    \cup UNION {Tree(m.modules[n], Append(path, n)) : n \in DOMAIN m.modules}

Nodes == Tree(self, <<"root">>)
SubNodes == {node \in Nodes : Len(node.path) > 1}

CachesOf(m) ==
    [ variables      |-> m.all_variables,
      functions      |-> m.all_functions,
      type_iterators |-> m.all_type_iterators ]

CachesEmpty(m) ==
    /\ DOMAIN m.all_variables = {}
    /\ DOMAIN m.all_functions = {}
    /\ DOMAIN m.all_type_iterators = {}

DirectTables == {"modules", "variables", "functions", "type_iterators"}

DirectMutators ==
    {"set_var", "set_fn", "set_script_fn", "set_sub_module", "set_iter", "update_fn_namespace"}

MergeOps ==
    {"combine", "combine_flatten", "fill_with", "merge_filtered",
     "retain_script_functions", "sub_modules_mut"}

\* The qualified key of a function of the module at `path`, as the claims state it
QualifiedKey(path, f) ==
    IF is_script(f.func)
    THEN calc_script_fn_hash(path, f.name, f.params)
    ELSE combine_hashes(calc_script_fn_hash(path, f.name, f.params),
                        calc_native_fn_hash(<<>>, "", f.param_types))

\* The callables of the public Global functions the tree holds under bare key h
GlobalsAt(h) ==
    {node.module.functions[h].func :
        node \in {n \in Nodes : /\ h \in DOMAIN n.module.functions
                                /\ is_public(n.module.functions[h].access)
                                /\ is_global(n.module.functions[h].namespace)}}

\* The callables of the public functions of the tree whose qualified key is k
QualifiedAt(k) ==
    UNION {{node.module.functions[h].func :
               h \in {g \in DOMAIN node.module.functions :
                        /\ is_public(node.module.functions[g].access)
                        /\ QualifiedKey(node.path, node.module.functions[g]) = k}}
           : node \in Nodes}

----------------------------------------------------------------------------
(* C1..C10 *)

\* C1: every direct mutation (set_var, set_fn, set_script_fn, set_sub_module,
\* set_iter, update_fn_namespace) leaves indexed = false and the three
\* flattened caches cleared, so that no qualified lookup returns an entry
\* flattened before the mutation.
C1_MutationClearsCaches ==
    op.name \in DirectMutators =>
        /\ ~is_indexed(self)
        /\ \A h \in DOMAIN pre.all_variables : get_qualified_var(self, h) = <<>>
        /\ \A h \in DOMAIN pre.all_functions :
              /\ get_qualified_fn(self, h) = <<>>
              /\ ~contains_qualified_fn(self, h)
        /\ \A t \in DOMAIN pre.all_type_iterators : get_qualified_iter(self, t) = <<>>

\* C2: whenever a module of the tree is indexed, its three flattened caches
\* are a flattening of the current direct tables of the tree rooted at it.
C2_IndexedCachesAreFlattening ==
    \A node \in Nodes :
        is_indexed(node.module) => CachesOf(node.module) \in Flattenings(node.module)

C2_Witness ==
    /\ is_indexed(self)
    /\ op.name # "build_index"
    /\ DOMAIN self.modules # {}
    /\ DOMAIN self.all_variables # {}
    /\ DOMAIN self.all_functions # {}
    /\ DOMAIN self.all_type_iterators # {}

\* C3: on an indexed module, set_var, set_fn, set_script_fn, set_sub_module,
\* set_iter and update_fn_namespace (registered hash or not) make is_indexed
\* false, and it stays false across every operation but build_index.
C3_MutationInvalidates ==
    /\ (is_indexed(pre) /\ op.name \in DirectMutators) => ~is_indexed(self)
    /\ (~is_indexed(pre) /\ op.name # "build_index") => ~is_indexed(self)

C3_Witness ==
    /\ is_indexed(pre)
    /\ op.name = "update_fn_namespace"
    /\ op.arg = UnregisteredHash
    /\ ~is_indexed(self)

\* C4: build_index on an indexed module changes nothing: the flattened tables
\* and the flag after a second build_index are those after the first.
C4_BuildIndexIdempotent ==
    (op.name = "build_index" /\ is_indexed(pre)) => self = pre

C4_Witness ==
    /\ op.name = "build_index"
    /\ is_indexed(pre)
    /\ DOMAIN self.all_functions # {}
    /\ Cardinality(Flattenings(self)) > 1

\* C5 as stated: every direct-table mutator (update_fn_metadata too, when it
\* changes an entry of the function table) and every merge operation moves
\* the module to stale, and only build_index moves it from stale to fresh.
C5_EveryMutatorStales ==
    /\ op.name \in DirectMutators \cup MergeOps => ~is_indexed(self)
    /\ (op.name = "update_fn_metadata" /\ self.functions # pre.functions) => ~is_indexed(self)
    /\ (~is_indexed(pre) /\ is_indexed(self)) => op.name = "build_index"

\* C5 amended: every direct-table mutator but update_fn_metadata, and every
\* merge operation, moves the module to stale; build_index moves it to fresh
\* and is the only operation that does.
C5_Lifecycle ==
    /\ op.name \in DirectMutators \cup MergeOps => ~is_indexed(self)
    /\ op.name = "build_index" => is_indexed(self)
    /\ (~is_indexed(pre) /\ is_indexed(self)) => op.name = "build_index"

C5_Witness ==
    /\ is_indexed(pre)
    /\ op.name = "retain_script_functions"
    /\ ~is_indexed(self)

\* C6: after build_index on the root, a public Global function of a
\* sub-module is in the root's flattened function table under its qualified
\* key and under its bare key (the key of the sub-module's direct table); a
\* public Internal function is there under its qualified key only: its bare
\* key is in the table only for a public Global function of the tree that is
\* registered under that key, and then maps to that function's callable.
C6_GlobalVisibility ==
    is_indexed(self) =>
        \A node \in SubNodes :
            \A h \in {g \in DOMAIN node.module.functions :
                        is_public(node.module.functions[g].access)} :
                LET f  == node.module.functions[h]
                    qk == QualifiedKey(node.path, f)
                IN  /\ qk \in DOMAIN self.all_functions
                    /\ self.all_functions[qk] \in QualifiedAt(qk)
                    /\ is_global(f.namespace) =>
                          /\ h \in DOMAIN self.all_functions
                          /\ self.all_functions[h] \in GlobalsAt(h)
                    /\ ~is_global(f.namespace) =>
                          (h \in DOMAIN self.all_functions =>
                              self.all_functions[h] \in GlobalsAt(h))

C6_Witness ==
    /\ is_indexed(self)
    /\ \E node \in SubNodes :
          \E g, i \in DOMAIN node.module.functions :
              /\ is_public(node.module.functions[g].access)
              /\ is_global(node.module.functions[g].namespace)
              /\ self.all_functions[g] = node.module.functions[g].func
              /\ is_public(node.module.functions[i].access)
              /\ ~is_global(node.module.functions[i].namespace)
              /\ ~is_script(node.module.functions[i].func)
              /\ i \notin DOMAIN self.all_functions

\* C7: build_index never flattens a Private function, whatever its namespace
\* and wherever it is in the tree: no key of the flattened function table maps
\* to its callable, and every key of the table maps to the callable of a
\* public function of the tree that goes under that key.
C7_PrivateNeverFlattened ==
    is_indexed(self) =>
        /\ \A node \in Nodes :
              \A h \in DOMAIN node.module.functions :
                  is_private(node.module.functions[h].access) =>
                      node.module.functions[h].func \notin Range(self.all_functions)
        /\ \A k \in DOMAIN self.all_functions :
              self.all_functions[k] \in GlobalsAt(k) \cup QualifiedAt(k)

C7_Witness ==
    /\ is_indexed(self)
    /\ DOMAIN self.all_functions # {}
    /\ \E node \in Nodes :
          \E g, i \in DOMAIN node.module.functions :
              /\ is_private(node.module.functions[g].access)
              /\ is_global(node.module.functions[g].namespace)
              /\ is_private(node.module.functions[i].access)
              /\ ~is_global(node.module.functions[i].namespace)

\* C8: merge_filtered with the always-true predicate merges nested sub-module
\* contents: a sub-module that self and other both have holds, afterwards,
\* the variables of both.
C8_MergeKeepsNested ==
    (op.name = "merge_filtered" /\ op.arg = <<"all">>) =>
        \A n \in (DOMAIN pre.modules) \cap (DOMAIN op.other.modules) :
            (DOMAIN pre.modules[n].variables) \cup (DOMAIN op.other.modules[n].variables)
                \subseteq DOMAIN self.modules[n].variables

\* C9: combine merges the four direct tables only, overwriting on collision:
\* every key of other maps to other's entry, every other key of self is
\* unchanged, so a sub-module both have is replaced by other's as a whole.
C9_CombineOverwrites ==
    op.name = "combine" =>
        \A t \in DirectTables :
            /\ DOMAIN self[t] = (DOMAIN pre[t]) \cup (DOMAIN op.other[t])
            /\ \A k \in DOMAIN op.other[t] : self[t][k] = op.other[t][k]
            /\ \A k \in (DOMAIN pre[t]) \ (DOMAIN op.other[t]) : self[t][k] = pre[t][k]

C9_Witness ==
    /\ op.name = "combine"
    /\ \E n \in (DOMAIN pre.modules) \cap (DOMAIN op.other.modules) :
          /\ pre.modules[n] # op.other.modules[n]
          /\ self.modules[n] = op.other.modules[n]
          /\ \E v \in DOMAIN pre.modules[n].variables :
                v \notin DOMAIN self.modules[n].variables

\* C10: fill_with never overwrites: every entry of self's four direct tables
\* is unchanged, the entries of other under keys self lacks are inserted, and
\* a sub-module self already has is left as it is.
C10_FillWithKeeps ==
    op.name = "fill_with" =>
        \A t \in DirectTables :
            /\ DOMAIN self[t] = (DOMAIN pre[t]) \cup (DOMAIN op.other[t])
            /\ \A k \in DOMAIN pre[t] : self[t][k] = pre[t][k]
            /\ \A k \in (DOMAIN op.other[t]) \ (DOMAIN pre[t]) : self[t][k] = op.other[t][k]

C10_Witness ==
    /\ op.name = "fill_with"
    /\ \E n \in (DOMAIN pre.modules) \cap (DOMAIN op.other.modules) :
          /\ pre.modules[n] # op.other.modules[n]
          /\ self.modules[n] = pre.modules[n]
    /\ \E v \in DOMAIN pre.variables :
          /\ v \in DOMAIN op.other.variables
          /\ pre.variables[v] # op.other.variables[v]
    /\ \E v \in DOMAIN op.other.variables : v \notin DOMAIN pre.variables

----------------------------------------------------------------------------
(* C11..C20 *)

\* The tables combine_flatten and merge_filtered copy entries of
FlatTables == {"variables", "functions", "type_iterators"}

\* The tree of the module handed to the last operation
OtherTree == Tree(op.other, <<"root">>)

IsProperPrefix(p, q) == Len(p) < Len(q) /\ SubSeq(q, 1, Len(p)) = p

\* The modules of other's tree that hold key k in table t; those of them
\* with no ancestor that holds it, and those with no descendant that does
Holders(t, k) == {n \in OtherTree : k \in DOMAIN n.module[t]}

TopHolders(t, k) ==
    {n \in Holders(t, k) : ~\E a \in Holders(t, k) : IsProperPrefix(a.path, n.path)}

BottomHolders(t, k) ==
    {n \in Holders(t, k) : ~\E b \in Holders(t, k) : IsProperPrefix(n.path, b.path)}

OtherKeys(t) == UNION {DOMAIN n.module[t] : n \in OtherTree}

\* C11 as stated: after combine_flatten, a key that a module of other's tree
\* and one of its descendants both hold maps, in self's direct table, to the
\* entry of the deeper module.
C11_DeeperWins ==
    op.name = "combine_flatten" =>
        \A t \in FlatTables :
            \A k \in OtherKeys(t) :
                self[t][k] \in {n.module[t][k] : n \in BottomHolders(t, k)}

\* C11 amended: after combine_flatten, every key of other's tree is in self's
\* direct table and maps to the entry of a module of other's tree that has no
\* ancestor holding the key: the shallower module wins over its descendants.
\* Keys other's tree lacks are as before, and no sub-module is added.
C11_ShallowerWins ==
    op.name = "combine_flatten" =>
        /\ self.modules = pre.modules
        /\ \A t \in FlatTables :
              /\ DOMAIN self[t] = (DOMAIN pre[t]) \cup OtherKeys(t)
              /\ \A k \in OtherKeys(t) :
                    self[t][k] \in {n.module[t][k] : n \in TopHolders(t, k)}
              /\ \A k \in (DOMAIN pre[t]) \ OtherKeys(t) : self[t][k] = pre[t][k]

C11_Witness ==
    /\ op.name = "combine_flatten"
    /\ \A t \in FlatTables :
          \E k \in OtherKeys(t) :
              \E a, b \in Holders(t, k) :
                  /\ IsProperPrefix(a.path, b.path)
                  /\ a.module[t][k] # b.module[t][k]
                  /\ self[t][k] = a.module[t][k]

\* The functions of a module that a filter predicate accepts
Accepted(filter, m) == {h \in DOMAIN m.functions : FilterInfo(filter, m.functions[h])}

\* C12: merge_filtered copies every variable and every iterator of other into
\* self, overwriting on collision, and a function of other if and only if the
\* predicate accepts it (a rejected one leaves self's table as it was under
\* that hash); every nested sub-module of other arrives in self, at the same
\* path, with its variables and iterators and exactly its accepted functions.
C12_MergeFilteredCopies ==
    op.name = "merge_filtered" =>
        LET filter == op.arg[1]
            other  == op.other
        IN  /\ \A t \in {"variables", "type_iterators"} :
                  /\ DOMAIN self[t] = (DOMAIN pre[t]) \cup (DOMAIN other[t])
                  /\ \A k \in DOMAIN other[t] : self[t][k] = other[t][k]
                  /\ \A k \in (DOMAIN pre[t]) \ (DOMAIN other[t]) : self[t][k] = pre[t][k]
            /\ DOMAIN self.functions = (DOMAIN pre.functions) \cup Accepted(filter, other)
            /\ \A h \in Accepted(filter, other) : self.functions[h] = other.functions[h]
            /\ \A h \in (DOMAIN pre.functions) \ Accepted(filter, other) :
                  self.functions[h] = pre.functions[h]
            /\ \A o \in {n \in OtherTree : Len(n.path) > 1} :
                  \E n \in Nodes :
                      /\ n.path = o.path
                      /\ n.module.variables = o.module.variables
                      /\ n.module.type_iterators = o.module.type_iterators
                      /\ DOMAIN n.module.functions = Accepted(filter, o.module)
                      /\ \A h \in Accepted(filter, o.module) :
                            n.module.functions[h] = o.module.functions[h]

C12_Witness ==
    /\ op.name = "merge_filtered"
    /\ \E k \in (DOMAIN pre.variables) \cap (DOMAIN op.other.variables) :
          /\ pre.variables[k] # op.other.variables[k]
          /\ self.variables[k] = op.other.variables[k]
    /\ \E o \in {n \in OtherTree : Len(n.path) > 1} :
          /\ Accepted(op.arg[1], o.module) # {}
          /\ Accepted(op.arg[1], o.module) # DOMAIN o.module.functions
          /\ \E n \in Nodes :
                /\ n.path = o.path
                /\ DOMAIN n.module.functions = Accepted(op.arg[1], o.module)

\* C13: after retain_script_functions, self's direct function table holds
\* exactly the entries it held before that are script-defined and accepted by
\* the predicate, each unchanged; every native function is gone whatever the
\* predicate says, and variables, sub-modules and iterators are unchanged.
C13_RetainScriptFunctions ==
    op.name = "retain_script_functions" =>
        /\ DOMAIN self.functions =
              {h \in DOMAIN pre.functions :
                  /\ is_script(pre.functions[h].func)
                  /\ FilterInfo(op.arg[1], pre.functions[h])}
        /\ \A h \in DOMAIN self.functions : self.functions[h] = pre.functions[h]
        /\ self.variables = pre.variables
        /\ self.modules = pre.modules
        /\ self.type_iterators = pre.type_iterators

C13_Witness ==
    /\ op.name = "retain_script_functions"
    /\ DOMAIN pre.variables # {}
    /\ DOMAIN pre.type_iterators # {}
    /\ \E n, a, r \in DOMAIN pre.functions :
          /\ ~is_script(pre.functions[n].func)
          /\ FilterInfo(op.arg[1], pre.functions[n])
          /\ is_script(pre.functions[a].func)
          /\ is_script(pre.functions[r].func)
          /\ a \in DOMAIN self.functions
          /\ r \notin DOMAIN self.functions
          /\ n \notin DOMAIN self.functions

IndexerOps == {"set_indexer_get_fn", "set_indexer_set_fn", "set_indexer_get_set_fn"}

\* C14: registering an indexer (getter, setter or both) whose receiver type
\* is the array type, the map type or a string type (String, &str,
\* ImmutableString) panics, and the module is exactly as before the call:
\* function table, indexed flag and flattened caches.
C14_IndexerGuard ==
    (op.name \in IndexerOps /\ op.arg.receiver \in ReceiverTypes \ {"Int"}) =>
        /\ op.arg.panic
        /\ self.functions = pre.functions
        /\ self.indexed = pre.indexed
        /\ CachesOf(self) = CachesOf(pre)
        /\ self = pre

C14_Witness ==
    /\ op.name = "set_indexer_get_set_fn"
    /\ op.arg.receiver = "ImmutableString"
    /\ op.arg.panic
    /\ is_indexed(pre)
    /\ DOMAIN pre.all_functions # {}
    /\ self = pre

\* C15: the index getter and the index setter are both registered with
\* Global namespace and Public access, so that after build_index on an
\* ancestor module both are in its flattened function table under their
\* bare hash (the key of the direct table they are registered in).
C15_IndexersGlobal ==
    \A node \in Nodes :
        \A h \in DOMAIN node.module.functions :
            node.module.functions[h].name \in {FN_IDX_GET, FN_IDX_SET} =>
                /\ is_global(node.module.functions[h].namespace)
                /\ is_public(node.module.functions[h].access)
                /\ (is_indexed(self) /\ Len(node.path) > 1) =>
                      h \in DOMAIN self.all_functions

\* C16: a function registered by a facade for a closure of N parameters,
\* called with an argument list of exactly N entries, reads positions
\* 0..N-1 only and passes the entry at position i as the closure's i-th
\* parameter, position 0 by mutable borrow in the _mut forms and every other
\* by value.
C16_AdapterPositional ==
    op.name = "call" =>
        /\ ~op.arg.outcome.panic
        /\ \A i \in DOMAIN op.other.func.reads : op.other.func.reads[i].pos < Len(op.arg.args)
        /\ Len(op.arg.outcome.params) = Len(op.arg.args)
        /\ \A i \in 1..Len(op.arg.args) :
              /\ op.arg.outcome.params[i].value = op.arg.args[i]
              /\ op.arg.outcome.params[i].by =
                     IF i = 1 /\ op.other.func.kind = "method" THEN "borrow" ELSE "value"

\* The entries of a function table with a given name and recorded types
Overloads(functions, name, param_types) ==
    {h \in DOMAIN functions :
        /\ functions[h].name = name
        /\ functions[h].param_types = param_types}

Normalized(arg_types) == [i \in 1..Len(arg_types) |-> NormalizeType(arg_types[i])]

\* C17: the hash set_fn returns is computed after the string-like types are
\* normalized: a registration whose name and normalized parameter types are
\* those of an entry already in the table returns that entry's hash and
\* replaces it, so the table holds a single entry for them, the later one.
C17_StringOverloadsCollide ==
    op.name = "set_fn" =>
        /\ \A h \in Overloads(pre.functions, op.arg.name, Normalized(op.arg.arg_types)) :
              op.arg.hash = h
        /\ Overloads(self.functions, op.arg.name, Normalized(op.arg.arg_types))
              = {op.arg.hash}
        /\ self.functions[op.arg.hash].func = op.arg.func

\* C18: f(Int), f(Int, Int) and f(String) have three different hashes; a
\* set_fn call adds one entry under a hash not yet in the table and replaces
\* the entry under a hash that is (the last registration wins); every entry
\* under another hash is unchanged, and contains_fn and get_fn answer for it
\* as before.
C18_OverloadsIndependent ==
    /\ \A t1, t2 \in {<<"Int">>, <<"Int", "Int">>, <<"String">>} :
          (set_fn_hash("f", t1) = set_fn_hash("f", t2)) <=> (t1 = t2)
    /\ op.name = "set_fn" =>
          /\ op.arg.hash = set_fn_hash(op.arg.name, op.arg.arg_types)
          /\ DOMAIN self.functions = (DOMAIN pre.functions) \cup {op.arg.hash}
          /\ self.functions[op.arg.hash].func = op.arg.func
          /\ get_fn(self, op.arg.hash, FALSE) = <<op.arg.func>>
          /\ \A h \in (DOMAIN pre.functions) \ {op.arg.hash} :
                /\ self.functions[h] = pre.functions[h]
                /\ \A public_only \in BOOLEAN :
                      /\ contains_fn(self, h, public_only) = contains_fn(pre, h, public_only)
                      /\ get_fn(self, h, public_only) = get_fn(pre, h, public_only)

C18_Witness ==
    /\ op.name = "set_fn"
    /\ Cardinality(DOMAIN self.functions) = 3
    /\ \A t \in {<<"Int">>, <<"Int", "Int">>, <<"String">>} :
          /\ contains_fn(self, set_fn_hash("f", t), FALSE)
          /\ self.functions[set_fn_hash("f", t)].param_types = Normalized(t)
    /\ \E h \in DOMAIN pre.functions : is_private(pre.functions[h].access)

\* The hashes contains_fn and get_fn are asked for: the keys of the direct
\* function tables of the whole tree and of the flattened table, and a hash
\* nothing is registered under
FnHashes ==
    UNION {DOMAIN node.module.functions : node \in Nodes}
    \cup (DOMAIN self.all_functions)
    \cup {UnregisteredHash}

\* C19: contains_fn and get_fn agree for every hash and flag; with
\* public_only they report a function exactly when the module's own direct
\* table has an entry at the hash and its access is Public, without it
\* exactly when the table has an entry; get_fn gives that entry's callable.
\* Entries of sub-modules and of the flattened table are not reported.
C19_ContainsGetAgree ==
    \A h \in FnHashes :
        /\ \A public_only \in BOOLEAN :
              /\ contains_fn(self, h, public_only) <=> (get_fn(self, h, public_only) # <<>>)
              /\ get_fn(self, h, public_only) # <<>> =>
                    get_fn(self, h, public_only) = <<self.functions[h].func>>
        /\ contains_fn(self, h, TRUE) <=>
              (h \in DOMAIN self.functions /\ is_public(self.functions[h].access))
        /\ contains_fn(self, h, FALSE) <=> (h \in DOMAIN self.functions)

C19_Witness ==
    /\ is_indexed(self)
    /\ \E h \in DOMAIN self.functions :
          /\ is_private(self.functions[h].access)
          /\ ~contains_fn(self, h, TRUE)
          /\ get_fn(self, h, FALSE) # <<>>
    /\ \E h \in (DOMAIN self.all_functions) \ (DOMAIN self.functions) :
          /\ \E node \in SubNodes : h \in DOMAIN node.module.functions
          /\ ~contains_fn(self, h, FALSE)
          /\ get_fn(self, h, FALSE) = <<>>

----------------------------------------------------------------------------
(* C21..C30 *)

\* C21: with display names, gen_signature renders "name(p1, p2, ...) -> R",
\* R the last display name and p1.. the ones before it in order, and leaves
\* " -> R" out when R is "()": <<"x: Int", "Int">> gives "calc(x: Int) -> Int"
\* and <<"x: Int", "()">> gives "calc(x: Int)".
C21_SignatureWithNames ==
    (op.name = "gen_signature" /\ op.arg.info.param_names # <<>>) =>
        LET names == op.arg.info.param_names
            n     == Len(names) - 1
            inner == CASE n = 0 -> ""
                       [] n = 1 -> names[1]
                       [] n = 2 -> names[1] \o ", " \o names[2]
            tail  == IF names[n + 1] = "()" THEN ")" ELSE ") -> " \o names[n + 1]
        IN  /\ op.arg.sig = op.arg.info.name \o "(" \o inner \o tail
            /\ names = <<"x: Int", "Int">> => op.arg.sig = "calc(x: Int) -> Int"
            /\ names = <<"x: Int", "()">> => op.arg.sig = "calc(x: Int)"

C21_Witness ==
    /\ op.name = "gen_signature"
    /\ op.arg.info.param_names = <<"x: Int", "()">>
    /\ op.arg.sig = "calc(x: Int)"

\* C22: without display names, gen_signature renders the name, then in
\* parentheses as many underscores as the arity, separated by ", " (none for
\* arity 0), then " -> ?" for a native function and nothing for a script
\* function: arity 2 native gives "calc(_, _) -> ?".
C22_SignatureWithoutNames ==
    (op.name = "gen_signature" /\ op.arg.info.param_names = <<>>) =>
        op.arg.sig =
            op.arg.info.name \o "("
            \o <<"", "_", "_, _", "_, _, _", "_, _, _, _">>[op.arg.info.params + 1]
            \o (IF is_script(op.arg.info.func) THEN ")" ELSE ") -> ?")

C22_Witness ==
    /\ op.name = "gen_signature"
    /\ op.arg.info.param_names = <<>>
    /\ op.arg.info.params = 0
    /\ ~is_script(op.arg.info.func)
    /\ op.arg.sig = "calc() -> ?"

ScriptFnsAsked ==
    {h \in DOMAIN pre.functions :
        /\ is_script(pre.functions[h].func)
        /\ pre.functions[h].name = op.arg.name
        /\ pre.functions[h].params = op.arg.num_params
        /\ (op.arg.public_only => is_public(pre.functions[h].access))}

\* C29: get_script_fn gives the script-defined function of that name and
\* parameter count (Public when public_only) if the direct table holds one,
\* and None otherwise: None when only a native function has that name and
\* count, the script function when a native and a script function both have.
C29_GetScriptFn ==
    op.name = "get_script_fn" =>
        /\ ScriptFnsAsked = {} => op.arg.result = <<>>
        /\ ScriptFnsAsked # {} =>
              /\ op.arg.result # <<>>
              /\ op.arg.result[1].scripted
              /\ op.arg.result[1].def \in {pre.functions[h].func.id : h \in ScriptFnsAsked}

\* C24: combine, combine_flatten, fill_with, merge_filtered (merge is
\* merge_filtered with the always-true predicate), retain_script_functions
\* and sub_modules_mut leave indexed false and the three flattened caches
\* empty: every qualified lookup on self misses, for the keys flattened
\* before and for the entries now registered, and the caches stay empty
\* across every operation but build_index.
C24_MergeOpsClearCaches ==
    /\ op.name \in MergeOps =>
          /\ ~is_indexed(self)
          /\ CachesEmpty(self)
          /\ \A h \in (DOMAIN pre.all_variables) \cup VarProbes :
                get_qualified_var(self, h) = <<>>
          /\ \A h \in (DOMAIN pre.all_functions) \cup (DOMAIN self.functions) :
                /\ get_qualified_fn(self, h) = <<>>
                /\ ~contains_qualified_fn(self, h)
          /\ \A t \in (DOMAIN pre.all_type_iterators) \cup (DOMAIN self.type_iterators) :
                get_qualified_iter(self, t) = <<>>
    /\ (CachesEmpty(pre) /\ op.name # "build_index") => CachesEmpty(self)

C24_Witness ==
    /\ op.name = "merge_filtered"
    /\ op.arg = <<"all">>
    /\ is_indexed(pre)
    /\ DOMAIN pre.all_variables # {}
    /\ DOMAIN pre.all_functions # {}
    /\ DOMAIN pre.all_type_iterators # {}
    /\ DOMAIN self.functions # {}
    /\ CachesEmpty(self)

\* What every read accessor returns on module m for the keys in use
LookupsOf(m, names, hashes, types) ==
    [ is_indexed     |-> is_indexed(m),
      vars           |-> [n \in names |-> <<contains_var(m, n), get_var(m, n)>>],
      sub_modules    |-> [n \in names |-> <<contains_sub_module(m, n), get_sub_module(m, n)>>],
      fns            |-> [h \in hashes |->
                            [b \in BOOLEAN |-> <<contains_fn(m, h, b), get_fn(m, h, b)>>]],
      qualified_vars |-> [h \in hashes |-> get_qualified_var(m, h)],
      qualified_fns  |-> [h \in hashes |->
                            <<contains_qualified_fn(m, h), get_qualified_fn(m, h)>>],
      iters          |-> [t \in types |->
                            <<contains_iter(m, t), get_iter(m, t),
                              contains_qualified_iter(m, t), get_qualified_iter(m, t)>>] ]

KeysOf(m) ==
    (DOMAIN m.functions) \cup (DOMAIN m.all_functions) \cup (DOMAIN m.all_variables)
        \cup {UnregisteredHash}

NamesOf(m) == (DOMAIN m.variables) \cup (DOMAIN m.modules) \cup VarNames \cup SubNames

TypesOf(m) == (DOMAIN m.type_iterators) \cup (DOMAIN m.all_type_iterators) \cup {"Int"}

\* C28: update_fn_metadata changes only the param_names of the entry at the
\* hash, and nothing when there is no entry: every other field of the module
\* and of the entry is as before, so every direct and qualified lookup
\* answers as before. update_fn_namespace changes only the namespace of the
\* entry and sets indexed to false; the caches are as before.
C28_UpdateFnFrame ==
    /\ op.name = "update_fn_metadata" =>
          /\ [self EXCEPT !.functions = EmptyMap] = [pre EXCEPT !.functions = EmptyMap]
          /\ DOMAIN self.functions = DOMAIN pre.functions
          /\ \A h \in DOMAIN pre.functions :
                IF h = op.arg
                THEN [self.functions[h] EXCEPT !.param_names = <<>>]
                        = [pre.functions[h] EXCEPT !.param_names = <<>>]
                ELSE self.functions[h] = pre.functions[h]
          /\ op.arg \notin DOMAIN pre.functions => self = pre
          /\ LookupsOf(self, NamesOf(pre), KeysOf(pre), TypesOf(pre))
                = LookupsOf(pre, NamesOf(pre), KeysOf(pre), TypesOf(pre))
    /\ op.name = "update_fn_namespace" =>
          /\ [self EXCEPT !.functions = EmptyMap, !.indexed = FALSE]
                = [pre EXCEPT !.functions = EmptyMap, !.indexed = FALSE]
          /\ ~is_indexed(self)
          /\ DOMAIN self.functions = DOMAIN pre.functions
          /\ \A h \in DOMAIN pre.functions :
                IF h = op.arg
                THEN [self.functions[h] EXCEPT !.namespace = "Internal"]
                        = [pre.functions[h] EXCEPT !.namespace = "Internal"]
                ELSE self.functions[h] = pre.functions[h]

C28_Witness ==
    /\ op.name = "update_fn_metadata"
    /\ op.arg \in DOMAIN pre.functions
    /\ is_indexed(pre)
    /\ DOMAIN pre.all_functions # {}
    /\ self.functions[op.arg].param_names # pre.functions[op.arg].param_names

\* The property accessors of module m: its functions under a getter or a
\* setter name
AccessorsOf(m) ==
    {h \in DOMAIN m.functions :
        \E p \in PropNames : m.functions[h].name \in {make_getter(p), make_setter(p)}}

\* C25: set_getter_fn and set_setter_fn register their function under
\* make_getter(name) / make_setter(name) with namespace Global and access
\* Public, the receiver type first; and whenever a module of the tree is
\* indexed, every accessor of a module below it is in its flattened function
\* table under the bare key (that of the direct table), which maps to the
\* callable of an accessor of its tree registered under that key, and under
\* the qualified key, which maps to the callable of that accessor.
C25_AccessorsGlobal ==
    /\ op.name \in {"set_getter_fn", "set_setter_fn"} =>
          /\ op.arg.hash \in DOMAIN self.functions
          /\ LET f == self.functions[op.arg.hash]
             IN  /\ f.name = (IF op.name = "set_getter_fn"
                              THEN "get$" \o op.arg.prop ELSE "set$" \o op.arg.prop)
                 /\ is_global(f.namespace)
                 /\ is_public(f.access)
                 /\ f.param_types = op.arg.types
                 /\ f.params = Len(op.arg.types)
    /\ \A a \in Nodes :
          is_indexed(a.module) =>
             LET below == {d \in Tree(a.module, <<"root">>) : Len(d.path) > 1}
             IN  \A d \in below :
                   \A h \in AccessorsOf(d.module) :
                      LET f  == d.module.functions[h]
                          qk == QualifiedKey(d.path, f)
                      IN  /\ is_global(f.namespace) /\ is_public(f.access)
                          /\ contains_qualified_fn(a.module, h)
                          /\ get_qualified_fn(a.module, h) \in
                                {<<e.module.functions[h].func>> :
                                    e \in {n \in Tree(a.module, <<"root">>) :
                                              h \in AccessorsOf(n.module)}}
                          /\ contains_qualified_fn(a.module, qk)
                          /\ get_qualified_fn(a.module, qk) \in
                                {<<e.module.functions[h].func>> :
                                    e \in {n \in below : /\ h \in AccessorsOf(n.module)
                                                         /\ n.path = d.path}}

C25_Witness ==
    /\ op.name = "build_index"
    /\ is_indexed(self)
    /\ \E a \in SubNodes :
          /\ is_indexed(a.module)
          /\ \E n \in DOMAIN a.module.modules :
                AccessorsOf(a.module.modules[n]) # {}
    /\ \E d \in SubNodes :
          \E h \in AccessorsOf(d.module) :
              d.module.functions[h].name = "set$x"

\* C26: rendering a NamespaceRef gives its qualifiers in declaration order
\* with the namespace separator between consecutive qualifiers only:
\* [a, b, c] renders as "a::b::c" and [a] as "a".
C26_RenderingJoins ==
    op.name = "display" => op.arg.text = Join(op.arg.path, "::")

QualifiedAccessors ==
    {"get_qualified_var", "get_qualified_fn", "contains_qualified_fn",
     "get_qualified_iter", "contains_qualified_iter"}

\* The keys of the entries registered in m that a qualified accessor is for
RegisteredKeys(m, accessor) ==
    CASE accessor \in {"get_qualified_fn", "contains_qualified_fn"} -> DOMAIN m.functions
      [] accessor \in {"get_qualified_iter", "contains_qualified_iter"} -> DOMAIN m.type_iterators
      [] OTHER -> {}

AliasesOf(scope) ==
    UNION {{scope[i].aliases[j] : j \in 1..Len(scope[i].aliases)} : i \in 1..Len(scope)}

\* The functions of m are the non-private script functions of lib
FunctionsHarvested(m, lib) ==
    /\ DOMAIN m.functions =
          {h \in DOMAIN lib.functions :
              lib.functions[h].access # "Private" /\ lib.functions[h].func.kind = "script"}
    /\ \A h \in DOMAIN m.functions :
          /\ m.functions[h].func = lib.functions[h].func
          /\ m.functions[h].name = lib.functions[h].name
          /\ m.functions[h].access = lib.functions[h].access

\* get_qualified_var finds every variable of m under the key of its name
VariablesResolvable(m) ==
    \A v \in DOMAIN m.variables :
        get_qualified_var(m, calc_script_fn_hash(<<"root">>, v, 0)) = <<m.variables[v]>>

\* The last entry of a scope that has the alias, the last import under it
LastWithAlias(scope, a) ==
    LET has == {i \in 1..Len(scope) : \E j \in 1..Len(scope[i].aliases) : scope[i].aliases[j] = a}
    IN  scope[CHOOSE i \in has : \A k \in has : k <= i]

LastImport(imports, a) ==
    LET has == {i \in 1..Len(imports) : imports[i].alias = a}
    IN  imports[CHOOSE i \in has : \A k \in has : k <= i]

\* C30: the module eval_ast_as_new returns is indexed; every alias of every
\* scope entry is a variable bound to that entry's value and there is no
\* other variable; there is one sub-module per import added by the run, each
\* import under its alias; the functions are the non-private script
\* functions of the AST; and get_qualified_var finds every exported variable.
C30_EvalAstAsNew ==
    (op.name = "eval_ast_as_new" /\ op.arg.ok) =>
        LET scope   == op.arg.scope
            imports == op.arg.imports
            lib     == op.arg.lib
        IN  /\ is_indexed(self)
            /\ DOMAIN self.variables = AliasesOf(scope)
            /\ \A i \in 1..Len(scope) :
                  \A j \in 1..Len(scope[i].aliases) :
                      get_var(self, scope[i].aliases[j]) = <<scope[i].value>>
            /\ Cardinality(DOMAIN self.modules) = Len(imports)
            /\ \A i \in 1..Len(imports) :
                  get_sub_module(self, imports[i].alias) = <<imports[i].module>>
            /\ FunctionsHarvested(self, lib)
            /\ VariablesResolvable(self)

\* C30, as the code has it: the module eval_ast_as_new returns is indexed;
\* its variables are the aliases of the scope entries, each bound to the
\* value of the last entry that has the alias; its sub-modules are the
\* aliases of the imports added by the run, each bound to the module of the
\* last import under the alias; its functions are the non-private script
\* functions of the AST; and get_qualified_var finds every variable.
C30_EvalAstAsNewLastWins ==
    (op.name = "eval_ast_as_new" /\ op.arg.ok) =>
        LET scope   == op.arg.scope
            imports == op.arg.imports
        IN  /\ is_indexed(self)
            /\ DOMAIN self.variables = AliasesOf(scope)
            /\ \A a \in AliasesOf(scope) :
                  get_var(self, a) = <<LastWithAlias(scope, a).value>>
            /\ DOMAIN self.modules = {imports[i].alias : i \in 1..Len(imports)}
            /\ \A a \in DOMAIN self.modules :
                  get_sub_module(self, a) = <<LastImport(imports, a).module>>
            /\ FunctionsHarvested(self, op.arg.lib)
            /\ VariablesResolvable(self)

C30_Witness ==
    /\ op.name = "eval_ast_as_new"
    /\ op.arg.ok
    /\ op.arg.scope = <<ScopeEntry(1, <<"x">>), ScopeEntry(2, <<"x">>)>>
    /\ Len(op.arg.imports) = 2
    /\ DOMAIN self.modules = {"S"}
    /\ DOMAIN op.arg.lib.functions # {}
    /\ DOMAIN self.functions # {}
    /\ get_var(self, "x") = <<2>>

----------------------------------------------------------------------------
(* C31..C40 *)

\* C31: after build_index the flattened variable table has, for every
\* variable of every module of the tree, the root's own included, an entry
\* under calc_script_fn_hash(path from "root" to the module, name, 0) bound
\* to that variable's value, and no other entry: variables of one name in
\* different modules have different entries.
C31_VariablesByPath ==
    is_indexed(self) =>
        /\ \A node \in Nodes :
              \A v \in DOMAIN node.module.variables :
                  get_qualified_var(self, <<"script">> \o node.path \o <<"|", v, "0">>)
                      = <<node.module.variables[v]>>
        /\ DOMAIN self.all_variables =
              UNION {{<<"script">> \o node.path \o <<"|", v, "0">> :
                         v \in DOMAIN node.module.variables} : node \in Nodes}
        /\ \A n1, n2 \in Nodes :
              \A v \in (DOMAIN n1.module.variables) \cap (DOMAIN n2.module.variables) :
                  n1.path # n2.path =>
                      calc_script_fn_hash(n1.path, v, 0) # calc_script_fn_hash(n2.path, v, 0)

C31_Witness ==
    /\ op.name = "build_index"
    /\ is_indexed(self)
    /\ \E n1, n2 \in Nodes :
          /\ Len(n1.path) = 1
          /\ Len(n2.path) > 1
          /\ \E v \in (DOMAIN n1.module.variables) \cap (DOMAIN n2.module.variables) :
                /\ n1.module.variables[v] # n2.module.variables[v]
                /\ get_qualified_var(self, calc_script_fn_hash(n1.path, v, 0))
                      = <<n1.module.variables[v]>>
                /\ get_qualified_var(self, calc_script_fn_hash(n2.path, v, 0))
                      = <<n2.module.variables[v]>>

\* The modules of the tree that register an iterator for type id t, and
\* those of them with no ancestor that does
IterHolders(t) == {n \in Nodes : t \in DOMAIN n.module.type_iterators}

TopIterHolders(t) ==
    {n \in IterHolders(t) : ~\E a \in IterHolders(t) : IsProperPrefix(a.path, n.path)}

\* C32: after build_index the flattened iterator table has every type id
\* registered anywhere in the tree and no other, and a type id maps to the
\* adapter of a module that has no ancestor registering one for it: of a
\* module and its descendant, the module closer to the root gives the entry.
C32_ShallowerIteratorWins ==
    is_indexed(self) =>
        /\ DOMAIN self.all_type_iterators =
              UNION {DOMAIN n.module.type_iterators : n \in Nodes}
        /\ \A t \in DOMAIN self.all_type_iterators :
              /\ contains_qualified_iter(self, t)
              /\ get_qualified_iter(self, t) \in
                    {<<n.module.type_iterators[t]>> : n \in TopIterHolders(t)}

C32_Witness ==
    /\ op.name = "build_index"
    /\ is_indexed(self)
    /\ \E t \in DOMAIN self.type_iterators :
          /\ \E n \in SubNodes : /\ t \in DOMAIN n.module.type_iterators
                                   /\ n.module.type_iterators[t] # self.type_iterators[t]
          /\ get_qualified_iter(self, t) = <<self.type_iterators[t]>>

\* The public functions of a node of the tree
PublicFns(node) ==
    {h \in DOMAIN node.module.functions : node.module.functions[h].access = "Public"}

\* C33: after build_index a public script function of the module at path p
\* is in the flattened function table under calc_script_fn_hash(p, name,
\* arity) itself, and a public native function under that hash combined with
\* the hash of its recorded (normalized) parameter types: two public native
\* functions of one module with one name and arity and different recorded
\* parameter types have different keys and each key maps to its own function.
C33_QualifiedKeys ==
    is_indexed(self) =>
        \A node \in Nodes :
            \A h \in PublicFns(node) :
                LET f    == node.module.functions[h]
                    base == calc_script_fn_hash(node.path, f.name, f.params)
                    args == calc_native_fn_hash(<<>>, "", f.param_types)
                    same == {g \in PublicFns(node) :
                               /\ node.module.functions[g].func.kind # "script"
                               /\ node.module.functions[g].name = f.name
                               /\ node.module.functions[g].param_types = f.param_types}
                IN  IF f.func.kind = "script"
                    THEN get_qualified_fn(self, base) = <<f.func>>
                    ELSE /\ get_qualified_fn(self, combine_hashes(base, args)) \in
                               {<<node.module.functions[g].func>> : g \in same}
                         /\ \A g \in PublicFns(node) \ same :
                               LET o == node.module.functions[g]
                               IN  (o.func.kind # "script" /\ o.name = f.name
                                      /\ o.params = f.params) =>
                                      combine_hashes(base, args) #
                                         combine_hashes(base,
                                            calc_native_fn_hash(<<>>, "", o.param_types))

C33_Witness ==
    /\ op.name = "build_index"
    /\ is_indexed(self)
    /\ \E node \in SubNodes :
          \E g, h, i \in PublicFns(node) :
              LET a == node.module.functions[g]
                  b == node.module.functions[h]
                  c == node.module.functions[i]
                  base == calc_script_fn_hash(node.path, a.name, a.params)
              IN  /\ a.func.kind # "script" /\ b.func.kind # "script" /\ c.func.kind = "script"
                  /\ a.name = b.name /\ a.params = b.params /\ a.param_types # b.param_types
                  /\ c.name = a.name /\ c.params = a.params
                  /\ get_qualified_fn(self, base) = <<c.func>>
                  /\ get_qualified_fn(self,
                        combine_hashes(base, calc_native_fn_hash(<<>>, "", a.param_types)))
                        = <<a.func>>
                  /\ get_qualified_fn(self,
                        combine_hashes(base, calc_native_fn_hash(<<>>, "", b.param_types)))
                        = <<b.func>>

\* C34: after combine_flatten self's sub-module table is as it was before,
\* and every variable, function and iterator of every module of other's
\* tree, at any depth, has its key (the one of its own direct table) in the
\* direct table of self, mapped to an entry other's tree has under that key.
C34_FlattenLeavesNoLevel ==
    op.name = "combine_flatten" =>
        /\ self.modules = pre.modules
        /\ \A n \in OtherTree :
              /\ \A v \in DOMAIN n.module.variables :
                    /\ contains_var(self, v)
                    /\ \E o \in OtherTree : get_var(self, v) = get_var(o.module, v)
              /\ \A h \in DOMAIN n.module.functions :
                    /\ contains_fn(self, h, FALSE)
                    /\ \E o \in OtherTree :
                          /\ h \in DOMAIN o.module.functions
                          /\ self.functions[h] = o.module.functions[h]
              /\ \A t \in DOMAIN n.module.type_iterators :
                    /\ contains_iter(self, t)
                    /\ \E o \in OtherTree : get_iter(self, t) = get_iter(o.module, t)

C34_Witness ==
    /\ op.name = "combine_flatten"
    /\ DOMAIN pre.modules # {}
    /\ self.modules = pre.modules
    /\ DOMAIN op.other.modules \ DOMAIN pre.modules # {}
    /\ \E n \in OtherTree :
          /\ Len(n.path) > 2
          /\ \E h \in DOMAIN n.module.functions :
                /\ h \notin DOMAIN pre.functions
                /\ self.functions[h] = n.module.functions[h]

\* Every variable and public function of node n is in the flattened tables
\* ix under the qualified key of n's path, mapped to n's own entry
ReachableIn(ix, n) ==
    /\ \A v \in DOMAIN n.module.variables :
          LET k == calc_script_fn_hash(n.path, v, 0)
          IN  k \in DOMAIN ix.variables /\ ix.variables[k] = n.module.variables[v]
    /\ \A h \in PublicFns(n) :
          LET k == QualifiedKey(n.path, n.module.functions[h])
          IN  k \in DOMAIN ix.functions /\ ix.functions[k] = n.module.functions[h].func

\* C35: after build_index every module of the tree is flattened under its
\* own path, also when the same module is attached at several paths; and
\* whatever build_index gives after a module is attached under a name, the
\* modules that were at other paths before are reachable under those paths
\* as they were.
C35_IndexedOncePerPath ==
    /\ is_indexed(self) => \A n \in Nodes : ReachableIn(CachesOf(self), n)
    /\ op.name = "set_sub_module" =>
          \A ix \in Flattenings(self) :
              \A n \in Tree(pre, <<"root">>) :
                  ~IsProperPrefix(<<"root">>, n.path) \/ n.path[2] # op.arg[1]
                      => ReachableIn(ix, n)

C35_Witness ==
    /\ op.name = "build_index"
    /\ is_indexed(self)
    /\ \E a, c \in SubNodes :
          /\ a.module = c.module
          /\ Len(a.path) = 2
          /\ Len(c.path) = 3
          /\ DOMAIN a.module.variables # {}
          /\ PublicFns(a) # {}
          /\ ReachableIn(CachesOf(self), a)
          /\ ReachableIn(CachesOf(self), c)

NoDuplicates(seq) == \A i, j \in 1..Len(seq) : seq[i] = seq[j] => i = j

IsPrefix(p, q) == Len(p) <= Len(q) /\ SubSeq(q, 1, Len(p)) = p

\* The tree has no module below itself; during build_index no path is
\* visited twice, and every module of the tree is visited or still to be
\* reached from the stack; at the end of build_index the paths visited are
\* those of the tree (none when the module was indexed already) and indexed
\* is true.
C36_TraversalSafe ==
    /\ \A a, b \in Nodes : IsProperPrefix(a.path, b.path) => a.module # b.module
    /\ op.name = "index_module" =>
          /\ NoDuplicates(op.arg.visited \o [i \in 1..Len(op.arg.todo) |-> op.arg.todo[i].path])
          /\ ~self.indexed =>
                \A n \in Nodes :
                    \/ \E i \in 1..Len(op.arg.visited) : op.arg.visited[i] = n.path
                    \/ \E i \in 1..Len(op.arg.todo) :
                          /\ IsPrefix(op.arg.todo[i].path, n.path)
                          /\ n \in Tree(op.arg.todo[i].module, op.arg.todo[i].path)
    /\ op.name = "build_index" =>
          /\ is_indexed(self)
          /\ NoDuplicates(op.arg.visited)
          /\ {op.arg.visited[i] : i \in 1..Len(op.arg.visited)} =
                (IF pre.indexed THEN {} ELSE {n.path : n \in Nodes})

\* C36: on every tree the public operations construct, build_index visits
\* each (path, module) once and ends, with indexed = true; the tree is
\* finite and no module is its own descendant.
C36_BuildIndexTerminates ==
    /\ []C36_TraversalSafe
    /\ (op.name = "index_module") ~> (op.name = "build_index" /\ is_indexed(self))

C36_Witness ==
    /\ op.name = "build_index"
    /\ ~pre.indexed
    /\ Len(op.arg.visited) >= 5
    /\ \E n \in Nodes : Len(n.path) >= 3
    /\ \E a, b \in Nodes : a.path # b.path /\ a.module = b.module

\* C37: every native entry of every direct function table, at any depth,
\* has params equal to the length of param_types, so the assert_eq of
\* build_index holds whenever it is evaluated.
C37_ParamsMatchParamTypes ==
    \A n \in Nodes : \A h \in DOMAIN n.module.functions :
        LET f == n.module.functions[h]
        IN  ~is_script(f.func) => f.params = Len(f.param_types)

C37_Witness ==
    /\ op.name = "build_index"
    /\ ~pre.indexed
    /\ \E h \in DOMAIN self.functions :
          /\ ~is_script(self.functions[h].func)
          /\ is_public(self.functions[h].access)
          /\ self.functions[h].params = 3
          /\ Len(self.functions[h].param_names) = 2

\* The modules of the tree that hold a public Global function under bare
\* hash h, and those of them with no ancestor that does
GlobalHolders(h) ==
    {n \in Nodes : /\ h \in DOMAIN n.module.functions
                    /\ is_public(n.module.functions[h].access)
                    /\ is_global(n.module.functions[h].namespace)}

TopGlobalHolders(h) ==
    {n \in GlobalHolders(h) : ~\E a \in GlobalHolders(h) : IsProperPrefix(a.path, n.path)}

\* C38: after build_index a bare hash that public Global functions of a
\* module and of one of its descendants share maps to the function of a
\* module with no ancestor holding one (the one closer to the root), and each
\* of the functions is in the table under its own qualified key.
C38_ShallowerGlobalWins ==
    is_indexed(self) =>
        \A h \in UNION {DOMAIN n.module.functions : n \in Nodes} :
            GlobalHolders(h) # {} =>
                /\ h \in DOMAIN self.all_functions
                /\ self.all_functions[h] \in
                      {n.module.functions[h].func : n \in TopGlobalHolders(h)}
                /\ \A n \in GlobalHolders(h) :
                      LET k == QualifiedKey(n.path, n.module.functions[h])
                      IN  /\ k \in DOMAIN self.all_functions
                          /\ self.all_functions[k] = n.module.functions[h].func

C38_Witness ==
    /\ op.name = "build_index"
    /\ ~pre.indexed
    /\ \E h \in DOMAIN self.functions :
          /\ self \in {n.module : n \in GlobalHolders(h)}
          /\ \E a, b \in GlobalHolders(h) :
                /\ Len(a.path) = 2
                /\ IsProperPrefix(a.path, b.path)
                /\ a.module.functions[h].func # b.module.functions[h].func
                /\ a.module.functions[h].func # self.functions[h].func
          /\ self.all_functions[h] = self.functions[h].func

\* m with the caches emptied and the indexed flag set to `flag`, in m and in
\* every module below it; and m with that done to the modules below it only
RECURSIVE Recached(_, _)

Recached(m, flag) ==
    [m EXCEPT
       !.modules = [n \in DOMAIN m.modules |-> Recached(m.modules[n], flag)],
       !.all_variables = EmptyMap,
       !.all_functions = EmptyMap,
       !.all_type_iterators = EmptyMap,
       !.indexed = flag]

RecachedBelow(m, flag) ==
    [m EXCEPT !.modules = [n \in DOMAIN m.modules |-> Recached(m.modules[n], flag)]]

\* C39: build_index leaves every sub-module as it was (flag, caches and
\* direct tables, at every depth) and the module's own direct tables too, and
\* what it flattens is the same whatever the flags and caches of the
\* sub-modules are: a sub-module of an indexed module can be not indexed.
C39_BuildIndexFrame ==
    op.name = "build_index" =>
        /\ self.modules = pre.modules
        /\ self.variables = pre.variables
        /\ self.functions = pre.functions
        /\ self.type_iterators = pre.type_iterators
        /\ is_indexed(self)
        /\ \A flag \in BOOLEAN :
              Flattenings(pre) = Flattenings(RecachedBelow(pre, flag))
        /\ ~pre.indexed => CachesOf(self) \in Flattenings(RecachedBelow(pre, FALSE))

C39_Witness ==
    /\ op.name = "build_index"
    /\ ~pre.indexed
    /\ \E a, b \in SubNodes :
          /\ is_indexed(a.module)
          /\ ~is_indexed(b.module)
          /\ DOMAIN b.module.functions # {}
          /\ \E h \in DOMAIN b.module.functions :
                QualifiedKey(b.path, b.module.functions[h]) \in DOMAIN self.all_functions

OperatorOps == {"add_ref", "add", "add_assign"}

\* C40: `&a + b` and `a + b` give a copy of a with merge(b) applied, and
\* `&a + b` leaves a as it was; `a += b` leaves a as combine(a, b) does; the
\* module each of the three gives is not indexed and has empty caches.
C40_OperatorsAreMerges ==
    /\ op.name = "add_ref" =>
          /\ self = pre
          /\ op.arg.output = merge(pre, op.other)
    /\ op.name = "add" =>
          /\ self = merge(pre, op.other)
          /\ op.arg.output = self
    /\ op.name = "add_assign" =>
          /\ self = combine(pre, op.other)
          /\ op.arg.output = self
    /\ op.name \in OperatorOps =>
          /\ ~is_indexed(op.arg.output)
          /\ CachesEmpty(op.arg.output)

C40_Witness ==
    /\ op.name = "add_assign"
    /\ is_indexed(pre)
    /\ DOMAIN pre.modules # {}
    /\ \E n \in DOMAIN op.other.modules : is_indexed(op.other.modules[n])
    /\ combine(pre, op.other) # merge(pre, op.other)

====
